---------------------------- MODULE Spec2Model ----------------------------
(***************************************************************************)
(* A model of the mining proxy (src/src/main.rs, src/src/msg_framing.rs):  *)
(* the job-provider and pool handlers, the two update tasks that own       *)
(* JobInfo, and merge_job_pool.                                            *)
(*                                                                         *)
(* u64 and i64 values are kept as their 8 little-endian bytes (what        *)
(* put_u64::<LittleEndian> writes), so that the 64-bit arithmetic of       *)
(* merge_job_pool is computed at its real width.                           *)
(***************************************************************************)
EXTENDS Integers, Sequences, FiniteSets, TLC

-----------------------------------------------------------------------------
(* Option<T> *)

None == [some |-> FALSE]

Some(x) == [some |-> TRUE, v |-> x]

-----------------------------------------------------------------------------
(* Fixed-width integers as little-endian byte sequences *)

U64Len == 8

TargetLen == 32

Zeros(n) == [i \in 1..n |-> 0]

\* the first n bytes of a, zero-extended: `as u64` of a wider intermediate
Pad(a, n) == [i \in 1..n |-> IF i <= Len(a) THEN a[i] ELSE 0]

RECURSIVE LeBytes(_, _)
\* put_uN::<LittleEndian>(n), N = 8 * len
LeBytes(n, len) ==
    IF len = 0 THEN <<>> ELSE <<n % 256>> \o LeBytes(n \div 256, len - 1)

U64(n) == LeBytes(n, U64Len)

RECURSIVE AddCarry(_, _, _)
\* a + b + c for equal-length a and b: Len(a) + 1 bytes, the last is the carry out
AddCarry(a, b, c) ==
    IF a = <<>> THEN <<c>>
    ELSE LET s == a[1] + b[1] + c
         IN  <<s % 256>> \o AddCarry(Tail(a), Tail(b), s \div 256)

\* the exact sum of two unsigned numbers
NatAdd(a, b) ==
    LET n == IF Len(a) >= Len(b) THEN Len(a) ELSE Len(b)
    IN  AddCarry(Pad(a, n), Pad(b, n), 0)

RECURSIVE MulDigit(_, _, _)
MulDigit(a, d, c) ==
    IF a = <<>> THEN <<c>>
    ELSE LET s == a[1] * d + c
         IN  <<s % 256>> \o MulDigit(Tail(a), d, s \div 256)

RECURSIVE NatMul(_, _)
\* the exact product of two unsigned numbers
NatMul(a, b) ==
    IF b = <<>> THEN Zeros(Len(a))
    ELSE NatAdd(MulDigit(a, b[1], 0), <<0>> \o NatMul(a, Tail(b)))

RECURSIVE LessEq(_, _, _)
\* a < b (or a <= b when eq) for equal-length unsigned numbers
LessEq(a, b, eq) ==
    LET n == Len(a)
    IN  IF n = 0 THEN eq
        ELSE IF a[n] # b[n] THEN a[n] < b[n]
        ELSE LessEq(SubSeq(a, 1, n - 1), SubSeq(b, 1, n - 1), eq)

NatLt(a, b) ==
    LET n == IF Len(a) >= Len(b) THEN Len(a) ELSE Len(b)
    IN  LessEq(Pad(a, n), Pad(b, n), FALSE)

NatLe(a, b) == ~NatLt(b, a)

RECURSIVE DivSmall(_, _)
\* quotient and remainder of an unsigned number by a small positive d
DivSmall(a, d) ==
    IF a = <<>> THEN [q |-> <<>>, r |-> 0]
    ELSE LET hi  == DivSmall(Tail(a), d)
             cur == hi.r * 256 + a[1]
         IN  [q |-> <<cur \div d>> \o hi.q, r |-> cur % d]

\* two's complement
IsNeg(a) == a[Len(a)] >= 128

Neg(a) == Pad(AddCarry([i \in 1..Len(a) |-> 255 - a[i]], Zeros(Len(a)), 1), Len(a))

\* |a| as an unsigned number (2^63 for i64::MIN)
Abs(a) == IF IsNeg(a) THEN Neg(a) ELSE a

\* i64::MIN as an unsigned magnitude, 2^63
Two63 == [i \in 1..U64Len |-> IF i = U64Len THEN 128 ELSE 0]

\* Rust's u64 `+`: the wrapped sum, and whether it overflowed
U64Add(a, b) ==
    LET s == NatAdd(a, b)
    IN  [v |-> Pad(s, U64Len), of |-> s[U64Len + 1] # 0]

\* Rust's i64 `-`
I64Sub(a, b) ==
    LET r == Pad(NatAdd(a, Neg(b)), U64Len)
    IN  [v |-> r, of |-> IsNeg(a) # IsNeg(b) /\ IsNeg(r) # IsNeg(a)]

\* Rust's i64 `*`
I64Mul(a, b) ==
    LET m == NatMul(Abs(a), Abs(b))
    IN  [v  |-> Pad(NatMul(a, b), U64Len),
         of |-> IF IsNeg(a) = IsNeg(b) THEN NatLe(Two63, m) ELSE NatLt(Two63, m)]

\* Rust's i64 `/` by a positive literal: truncates toward zero
I64Div(a, d) ==
    IF IsNeg(a) THEN Neg(Pad(DivSmall(Abs(a), d).q, U64Len))
    ELSE DivSmall(a, d).q

\* utils::min_le: the smaller of two little-endian unsigned 256-bit numbers
min_le(a, b) == IF NatLt(b, a) THEN b ELSE a

\* utils::does_hash_meet_target: hash <= target, little-endian unsigned
does_hash_meet_target(hash, target) == NatLe(hash, target)

-----------------------------------------------------------------------------
(* merge_job_pool *)

\* 21000000*100000000
MaxMoney == Pad(NatMul(U64(21000000), U64(100000000)), U64Len)

ResNone == [kind |-> "None"]

ResPanic == [kind |-> "Panic"]

\* one turn of a `for output in ...` loop: None for an output above MaxMoney,
\* else constant_value_output += output.value
SumOutput(output, acc, checks) ==
    IF NatLt(MaxMoney, output.value) THEN ResNone
    ELSE LET s == U64Add(acc, output.value)
         IN  IF s.of /\ checks THEN ResPanic
             ELSE [kind |-> "Ok", sum |-> s.v]

RECURSIVE SumRange(_, _, _, _, _)
\* the turns for outs[lo..hi] in their order, the first half before the second
SumRange(outs, lo, hi, acc, checks) ==
    IF lo > hi THEN [kind |-> "Ok", sum |-> acc]
    ELSE IF lo = hi THEN SumOutput(outs[lo], acc, checks)
    ELSE LET first == SumRange(outs, lo, (lo + hi) \div 2, acc, checks)
         IN  IF first.kind # "Ok" THEN first
             ELSE SumRange(outs, (lo + hi) \div 2 + 1, hi, first.sum, checks)

\* the two `for output in ...` loops: None at the first output above MaxMoney,
\* else constant_value_output += output.value
SumOutputs(outs, acc, checks) == SumRange(outs, 1, Len(outs), acc, checks)

\* self_payout_ratio_per_1000, 0 without a pool
SelfRatio(payout_info) ==
    IF payout_info.some THEN payout_info.v.info.self_payout_ratio_per_1000 ELSE 0

\* value_remaining * (self_payout_ratio_per_1000 as i64)
OurProduct(value_remaining, ratio) == I64Mul(value_remaining, U64(ratio))

\* the pool's part of the output list: the remaining payout, then appended_outputs
PoolOutputs(payout_info, rest_value) ==
    IF payout_info.some
    THEN <<[value |-> rest_value, script_pubkey |-> payout_info.v.info.remaining_payout]>>
         \o payout_info.v.info.appended_outputs
    ELSE <<>>

\* a MergedTarget that leaves weak_block_target out
MergedTargetOfShare(target, payout_info) ==
    IF payout_info.some /\ payout_info.v.difficulty.some
    THEN min_le(target, payout_info.v.difficulty.v.share_target)
    ELSE target

\* template.target after the two min_le against the pool's difficulty
MergedTarget(target, payout_info) ==
    IF payout_info.some /\ payout_info.v.difficulty.some
    THEN min_le(min_le(target, payout_info.v.difficulty.v.share_target),
                payout_info.v.difficulty.v.weak_block_target)
    ELSE target

\* coinbase_prefix, extended by the provider's postfix and then the pool's
MergedPrefix(prefix, postfix, payout_info) ==
    prefix
    \o (IF postfix.some THEN postfix.v.coinbase_prefix_postfix ELSE <<>>)
    \o (IF payout_info.some THEN payout_info.v.info.coinbase_postfix ELSE <<>>)

\* the outputs constant_value_output is summed over: the template's, then the pool's
SummedOutputs(template, payout_info) ==
    template.appended_coinbase_outputs
    \o (IF payout_info.some THEN payout_info.v.info.appended_outputs ELSE <<>>)

\* the WorkInfo, once our_value and the pool's rest (value_remaining - our_value,
\* computed only with a pool) are known
merge_outputs(our_payout_script, job_info, job_source, payout_info, payout_source, checks, our_value, rest) ==
    IF payout_info.some /\ rest.of /\ checks THEN ResPanic
    ELSE
    [kind |-> "Some",
     work |->
       [template |->
          [job_info.v.template EXCEPT
             !.target = MergedTarget(job_info.v.template.target, payout_info),
             !.coinbase_prefix =
                 MergedPrefix(job_info.v.template.coinbase_prefix, job_info.v.postfix, payout_info),
             !.appended_coinbase_outputs =
                 <<[value |-> our_value, script_pubkey |-> our_payout_script]>>
                 \o PoolOutputs(payout_info, rest.v)
                 \o job_info.v.template.appended_coinbase_outputs],
        job_source |-> job_source,
        payout_source |-> payout_source,
        tx_data |-> job_info.v.tx_data]]

\* our_value = prod / 1000, prod being value_remaining * ratio
merge_our_value(our_payout_script, job_info, job_source, payout_info, payout_source, checks, value_remaining, our_value) ==
    merge_outputs(our_payout_script, job_info, job_source, payout_info, payout_source, checks,
                  our_value, I64Sub(value_remaining, our_value))

\* the rest of merge_job_pool, once value_remaining is known not to be negative
merge_value_remaining(our_payout_script, job_info, job_source, payout_info, payout_source, checks, value_remaining, prod) ==
    IF prod.of /\ checks THEN ResPanic
    ELSE merge_our_value(our_payout_script, job_info, job_source, payout_info, payout_source,
                         checks, value_remaining, I64Div(prod.v, 1000))

\* value_remaining = coinbase_value_remaining as i64 - constant_value_output as i64,
\* and None when it is negative
merge_constant_value(our_payout_script, job_info, job_source, payout_info, payout_source, checks, vr) ==
    IF vr.of /\ checks THEN ResPanic
    ELSE IF IsNeg(vr.v) THEN ResNone
    ELSE merge_value_remaining(our_payout_script, job_info, job_source, payout_info,
                               payout_source, checks, vr.v,
                               OurProduct(vr.v, SelfRatio(payout_info)))

\* the rest of merge_job_pool, once the two loops are through
merge_summed(our_payout_script, job_info, job_source, payout_info, payout_source, checks, sum) ==
    IF sum.kind # "Ok" THEN sum
    ELSE merge_constant_value(our_payout_script, job_info, job_source, payout_info,
                              payout_source, checks,
                              I64Sub(job_info.v.template.coinbase_value_remaining, sum.sum))

\* checks: the build panics on integer overflow (debug) or wraps (release)
merge_job_pool(our_payout_script, job_info, job_source, payout_info, payout_source, checks) ==
    IF ~job_info.some THEN ResNone
    ELSE merge_summed(our_payout_script, job_info, job_source, payout_info, payout_source, checks,
                      SumOutputs(SummedOutputs(job_info.v.template, payout_info), U64(0), checks))

-----------------------------------------------------------------------------
(* State *)

VARIABLES
    jp,              \* JobProviderHandler of each --job_provider host
    job_chan,        \* the mpsc::channel(10) from each JobProviderHandler to its update task
    pool,            \* PoolHandler of each --pool_server host, keyed by its priority
    pool_chan,       \* the mpsc::channel(5) from each PoolHandler to its update task
    cur_work,        \* JobInfo
    work_chan,       \* the mpsc::channel(5) of WorkInfo to the stratum server
    ev_sent,         \* the Eventuals that hold their TransactionData, of those still referred to
    up,              \* the hosts that accept a TCP connection in this run
    panicked,        \* a task panicked: the process is gone
    last,            \* the step taken last: the call, its arguments and its result
    m_args,          \* the arguments of one call of merge_job_pool
    m_ret,           \* what that call returned
    conn,            \* ConnectionMaintainer of each host and the tasks it has spawned
    wire,            \* the Framed stream of a connection: what the peer wrote and the read buffer
    sample,          \* the sample pool: its client id counter, its clients and its connections
    served,          \* the WorkInfos whose solutions sender the stratum server holds
    ev_value,        \* the Eventuals whose value is set
    callees,         \* the closures that wait in the callees of the Eventuals
    sols             \* the solutions the routers received, and the Shares sent for each

\* what the connection maintainers add to the state
connvars == <<conn, wire, sample>>

\* what the stratum server, the routers and the Eventuals add to the state
routervars == <<served, ev_value, callees, sols>>

sysvars == <<jp, job_chan, pool, pool_chan, cur_work, work_chan, ev_sent,
             up, panicked, last, conn, wire, sample, served, ev_value, callees, sols>>

mvars == <<m_args, m_ret>>

vars == <<jp, job_chan, pool, pool_chan, cur_work, work_chan, ev_sent,
          up, panicked, last, m_args, m_ret, conn, wire, sample, served, ev_value, callees, sols>>

-----------------------------------------------------------------------------
(* Inputs of merge_job_pool *)

\* the longest appended output list the inputs carry
MaxOutputs == 2

S_op == <<118, 1>>

S_pool == <<118, 2>>

S_a == <<106, 3>>

S_b == <<106, 4>>

\* 0x00..00ff: the most significant byte is the last on the wire
Target(lo, hi) == [i \in 1..TargetLen |-> IF i = 1 THEN lo ELSE IF i = TargetLen THEN hi ELSE 0]

Targets == {Target(0, 255), Target(0, 127), Target(1, 127)}

TxOuts ==
    { [value |-> U64(1000000000), script_pubkey |-> S_a],
      [value |-> U64(2000000000), script_pubkey |-> S_b],
      [value |-> Pad(NatAdd(MaxMoney, U64(1)), U64Len), script_pubkey |-> S_a] }

OutputLists == UNION { [1..n -> TxOuts] : n \in 0..MaxOutputs }

\* 10^16: value_remaining * 1000 does not fit an i64
TenTo16 == Pad(NatMul(U64(100000000), U64(100000000)), U64Len)

\* 5_000_000_000
FiveBillion == Pad(NatMul(U64(5), U64(1000000000)), U64Len)

CoinbaseValues ==
    { FiveBillion, U64(1500000000), TenTo16,
      Pad(NatAdd(Two63, U64(500000000)), U64Len) }

\* BlockTemplate; the header and coinbase fields that merge_job_pool only copies
\* (header_version, header_prevblock, header_time, coinbase_version,
\* coinbase_input_sequence, coinbase_locktime) are left out
BlockTemplate(id, target, value, prefix, outs) ==
    [template_id |-> id,
     target |-> target,
     header_nbits |-> 486604799,
     merkle_rhss |-> <<>>,
     coinbase_value_remaining |-> value,
     coinbase_prefix |-> prefix,
     appended_coinbase_outputs |-> outs]

CoinbasePrefixPostfix(ts, bytes) == [timestamp |-> ts, coinbase_prefix_postfix |-> bytes]

PoolPayoutInfo(ts, ratio, postfix, script, outs) ==
    [timestamp |-> ts,
     self_payout_ratio_per_1000 |-> ratio,
     coinbase_postfix |-> postfix,
     remaining_payout |-> script,
     appended_outputs |-> outs]

PoolDifficulty(share, weak) == [share_target |-> share, weak_block_target |-> weak]

\* the Eventual<TransactionData> made for a job: one per (provider, template,
\* prefix postfix) as a template id or a postfix timestamp is accepted only once
EventualOf(source, template, postfix) ==
    [source |-> source,
     template_id |-> template.template_id,
     postfix_ts |-> IF postfix.some THEN postfix.v.timestamp ELSE 0]

\* (BlockTemplate, Option<CoinbasePrefixPostfix>, Rc<RefCell<Eventual<TransactionData>>>)
Job(source, template, postfix) ==
    [template |-> template, postfix |-> postfix, tx_data |-> EventualOf(source, template, postfix)]

\* (PoolPayoutInfo, Option<PoolDifficulty>)
PoolInfo(payout_info, difficulty) == [info |-> payout_info, difficulty |-> difficulty]

\* self_payout_ratio_per_1000 is a u16 that the decoder does not range-check
SelfRatios == {0, 250, 1000, 2000}

\* inputs that vary the amounts
AmountInputs ==
    { [job_info |-> Some(Job(1, BlockTemplate(1, Target(0, 255), value, <<1, 2>>, outs), None)),
       payout_info |-> payout_info]
      : value \in CoinbaseValues, outs \in OutputLists,
        payout_info \in {None} \cup
          { Some(PoolInfo(PoolPayoutInfo(1, ratio, <<>>, S_pool, pouts), None))
            : ratio \in SelfRatios, pouts \in OutputLists } }

\* inputs that vary the targets and the coinbase prefix parts
TargetInputs ==
    { [job_info |-> Some(Job(1, BlockTemplate(1, target, FiveBillion, <<1, 2>>, <<>>), postfix)),
       payout_info |-> payout_info]
      : target \in Targets,
        postfix \in {None, Some(CoinbasePrefixPostfix(1, <<7>>))},
        payout_info \in {None} \cup
          { Some(PoolInfo(PoolPayoutInfo(1, 250, <<9>>, S_pool, <<>>), difficulty))
            : difficulty \in {None} \cup
                { Some(PoolDifficulty(share, weak)) : share \in Targets, weak \in Targets } } }

NoJobInputs == { [job_info |-> None, payout_info |-> None] }

MergeInputs == AmountInputs \cup TargetInputs \cup NoJobInputs

-----------------------------------------------------------------------------
(* Messages and signatures *)

Keys == {"K1", "K2"}

\* the key the upstreams sign with when they follow the protocol
PeerKey == "K1"

\* Sha256 of the type byte followed by encode_unsigned of the payload
Sha256(tag, payload) == [tag |-> tag, payload |-> payload]

\* a signature is good for one key and one digest
Sign(key, digest) == [key |-> key, digest |-> digest]

\* secp_ctx.verify(&hash, &signature, &pubkey)
Verify(digest, signature, pubkey) == signature = Sign(pubkey, digest)

\* a check_msg_sig that hashes the payload under any type byte
check_msg_sig_any_type(auth_key, msg_type, payload, signature) ==
    auth_key.some /\ \E t \in {3, 6, 7} : Verify(Sha256(t, payload), signature, auth_key.v)

\* check_msg_sig!, and the same lines of PoolHandler: true when the message passes
check_msg_sig(auth_key, msg_type, payload, signature) ==
    auth_key.some /\ Verify(Sha256(msg_type, payload), signature, auth_key.v)

\* the largest template_id the job providers use
MaxTemplateId == 2

\* the largest timestamp the upstreams use
MaxTimestamp == 2

\* how many items the merge job streams and the channel to the server hold
\* together, and how many outbound messages a connection has queued, when a
\* message is read
MaxBacklog == 1

JobChanCapacity == 10

PoolChanCapacity == 5

WorkChanCapacity == 5

\* the signatures an upstream may put on a payload: by either key, over these
\* bytes or over the same payload under another type byte
Signatures(tag, payload) ==
    { Sign(k, Sha256(tag, payload)) : k \in Keys }
    \cup { Sign(PeerKey, Sha256(IF tag = 6 THEN 3 ELSE 6, payload)) }

Templates ==
    { BlockTemplate(id, Target(0, 255), FiveBillion, <<1, 2>>, <<>>) : id \in 1..MaxTemplateId }

\* templates whose one appended output is worth more than coinbase_value_remaining
OverspentTemplates ==
    { BlockTemplate(id, Target(0, 255), U64(1500000000), <<1, 2>>,
                    <<[value |-> U64(2000000000), script_pubkey |-> S_b]>>) : id \in 1..MaxTemplateId }

Postfixes == { CoinbasePrefixPostfix(ts, <<6 + ts>>) : ts \in 1..MaxTimestamp }

TransactionData(id) == [template_id |-> id, transactions |-> <<>>]

PayoutInfos ==
    { PoolPayoutInfo(ts, 250, <<9>>, S_pool, <<>>) : ts \in 1..MaxTimestamp }

\* payout infos whose one appended output is above 21000000*100000000
ExcessivePayoutInfos ==
    { PoolPayoutInfo(ts, 250, <<9>>, S_pool,
                     <<[value |-> Pad(NatAdd(MaxMoney, U64(1)), U64Len), script_pubkey |-> S_a]>>)
      : ts \in 1..MaxTimestamp }

Difficulties == { PoolDifficulty(Target(0, 127), Target(1, 127)) }

\* the WorkMessages the framer hands to handle_message (it never returns a
\* WinningNonce or a TransactionDataRequest)
WorkMessagesOf(templates) ==
    { [type |-> "ProtocolSupport"] }
    \cup { [type |-> "ProtocolVersion", selected_version |-> v, auth_key |-> k]
           : v \in {1, 2}, k \in Keys }
    \cup UNION { { [type |-> "BlockTemplate", signature |-> sig, template |-> t]
                   : sig \in Signatures(3, t) } : t \in templates }
    \cup UNION { { [type |-> "TransactionData", signature |-> sig, data |-> TransactionData(id)]
                   : sig \in Signatures(6, TransactionData(id)) }
                 : id \in 1..MaxTemplateId }
    \cup UNION { { [type |-> "CoinbasePrefixPostfix", signature |-> sig, coinbase_prefix_postfix |-> c]
                   : sig \in Signatures(7, c) } : c \in Postfixes }

WorkMessages == WorkMessagesOf(Templates)

\* the type byte a signed message is hashed with
SignedType(msg) ==
    CASE msg.type = "BlockTemplate" -> 3
      [] msg.type = "TransactionData" -> 6
      [] msg.type = "CoinbasePrefixPostfix" -> 7
      [] msg.type = "PayoutInfo" -> 3

\* the payload a signed message carries
SignedPayload(msg) ==
    CASE msg.type = "BlockTemplate" -> msg.template
      [] msg.type = "TransactionData" -> msg.data
      [] msg.type = "CoinbasePrefixPostfix" -> msg.coinbase_prefix_postfix
      [] msg.type = "PayoutInfo" -> msg.payout_info

SignedTypes == {"BlockTemplate", "TransactionData", "CoinbasePrefixPostfix", "PayoutInfo"}

\* the message is signed by the key the handler remembers, over its own type
\* byte and payload
CorrectlySigned(auth_key, msg) ==
    /\ auth_key.some
    /\ msg.signature = Sign(auth_key.v, Sha256(SignedType(msg), SignedPayload(msg)))

\* the message is signed by key, over its own type byte and payload
CorrectlySignedBy(key, msg) == CorrectlySigned(Some(key), msg)

\* the PoolMessages the framer hands to handle_message (it never returns a
\* Share or a WeakBlock)
PoolMessagesOf(payout_infos) ==
    { [type |-> "ProtocolSupport"], [type |-> "WeakBlockStateReset"] }
    \cup { [type |-> "ProtocolVersion", selected_version |-> v, auth_key |-> k]
           : v \in {1, 2}, k \in Keys }
    \cup UNION { { [type |-> "PayoutInfo", signature |-> sig, payout_info |-> i]
                   : sig \in Signatures(3, i) } : i \in payout_infos }
    \cup { [type |-> "ShareDifficulty", difficulty |-> d] : d \in Difficulties }

PoolMessages == PoolMessagesOf(PayoutInfos)

-----------------------------------------------------------------------------
(* Channels *)

\* futures::unsync::mpsc::Sender::start_send on a channel whose receiver lives:
\* the item is queued, or, the buffer being full, handed back in Ok(NotReady)
start_send(chan, capacity, item) ==
    IF Len(chan) >= capacity
    THEN [chan |-> chan, res |-> "NotReady"]
    ELSE [chan |-> Append(chan, item), res |-> "Ready"]

-----------------------------------------------------------------------------
(* JobProviderHandler *)

\* JobProviderHandler::new
JobProviderHandlerNew ==
    [stream |-> None,
     auth_key |-> None,
     cur_template |-> None,
     cur_prefix_postfix |-> None,
     pending_tx_data_requests |-> {}]

\* pending_tx_data_requests.insert: the entry of the same template_id is replaced
PendingInsert(pending, ev) ==
    { e \in pending : e.template_id # ev.template_id } \cup {ev}

\* pending_tx_data_requests.remove
PendingRemove(pending, id) == { e \in pending : e.template_id # id }

\* mpsc::unbounded(): what the UnboundedSender of a connection shares with the
\* UnboundedReceiver that the send pump holds
Stream(queue) == [queue |-> queue, receiver |-> TRUE]

\* stream.unbounded_send returns Err once the UnboundedReceiver is dropped
SendFails(stream) == ~stream.v.receiver

\* stream.unbounded_send on a stream whose UnboundedReceiver lives
unbounded_send(stream, msg) == Some([stream.v EXCEPT !.queue = Append(@, msg)])

\* a test that lets a BlockTemplate of the current template_id in again
TemplateIsNewerOrSame(cur_template, template) ==
    ~cur_template.some \/ cur_template.v.template_id <= template.template_id

\* the test that lets a BlockTemplate in
TemplateIsNewer(cur_template, template) ==
    ~cur_template.some \/ cur_template.v.template_id < template.template_id

\* a test that lets the current timestamp in again
TimestampIsNewerOrSame(cur, new) ==
    ~cur.some \/ cur.v.timestamp <= new.timestamp

\* the test that lets a CoinbasePrefixPostfix or a PayoutInfo in
TimestampIsNewer(cur, new) ==
    ~cur.some \/ cur.v.timestamp < new.timestamp

\* a test of the key of a ProtocolVersion that lets every key pass
UnexpectedAuthKeyNever(held, auth_key) == FALSE

\* the key of a ProtocolVersion is not the one the handler holds
UnexpectedAuthKey(held, auth_key) == held.v # auth_key

\* what handle_message leaves: the handler, its job_stream, the Eventuals given
\* their data, Ok or Err, and the line it printed
HandlerOk(h, chan, sent, log) ==
    [h |-> h, chan |-> chan, sent |-> sent, res |-> "Ok", log |-> log]

\* an error return that leaves the handler without its key
HandlerErrForgetting(h, chan, sent, log) ==
    [h |-> [h EXCEPT !.auth_key = None], chan |-> chan, sent |-> sent, res |-> "Err", log |-> log]

\* return Err(io::Error::new(io::ErrorKind::InvalidData, HandleError))
HandlerErr(h, chan, sent, log) ==
    [h |-> h, chan |-> chan, sent |-> sent, res |-> "Err", log |-> log]

\* panic!("unbounded streams should never fail")
HandlerPanic(h, chan, sent, log) ==
    [h |-> h, chan |-> chan, sent |-> sent, res |-> "Panic", log |-> log]

\* handle_message of JobProviderHandler p on handler state h, its job_stream
\* chan and the Eventuals already given their data
jp_handle_message(p, h, chan, sent, msg) ==
    CASE msg.type = "ProtocolSupport" -> HandlerErr(h, chan, sent, "Received ProtocolSupport")
      [] msg.type = "ProtocolVersion" ->
            IF msg.selected_version # 1 THEN HandlerErr(h, chan, sent, "")
            ELSE IF ~h.auth_key.some
                 THEN HandlerOk([h EXCEPT !.auth_key = Some(msg.auth_key)], chan, sent,
                                "Received ProtocolVersion, using version 1")
            ELSE IF UnexpectedAuthKey(h.auth_key, msg.auth_key)
                 THEN HandlerErr(h, chan, sent, "Got unexpected auth key")
            ELSE HandlerOk(h, chan, sent, "Received ProtocolVersion, using version 1")
      [] msg.type = "BlockTemplate" ->
            IF ~check_msg_sig(h.auth_key, 3, msg.template, msg.signature)
            THEN HandlerErr(h, chan, sent, "")
            ELSE IF TemplateIsNewer(h.cur_template, msg.template)
            THEN LET job == Job(p, msg.template, h.cur_prefix_postfix)
                     push == start_send(chan, JobChanCapacity, job)
                 IN  IF SendFails(h.stream)
                     THEN HandlerPanic(h, push.chan, sent, "Received new BlockTemplate")
                     ELSE
                     HandlerOk(
                       [h EXCEPT
                          !.stream = unbounded_send(h.stream,
                              [type |-> "TransactionDataRequest",
                               template_id |-> msg.template.template_id]),
                          !.pending_tx_data_requests =
                              PendingInsert(h.pending_tx_data_requests, job.tx_data),
                          !.cur_template = Some(msg.template)],
                       push.chan, sent, "Received new BlockTemplate")
            ELSE HandlerOk(h, chan, sent, "")
      [] msg.type = "WinningNonce" -> HandlerErr(h, chan, sent, "Received WinningNonce?")
      [] msg.type = "TransactionDataRequest" ->
            HandlerErr(h, chan, sent, "Received TransactionDataRequest?")
      [] msg.type = "TransactionData" ->
            IF ~check_msg_sig(h.auth_key, 6, msg.data, msg.signature)
            THEN HandlerErr(h, chan, sent, "")
            ELSE LET slot == { e \in h.pending_tx_data_requests
                               : e.template_id = msg.data.template_id }
                 IN  HandlerOk(
                       [h EXCEPT !.pending_tx_data_requests =
                                     PendingRemove(h.pending_tx_data_requests, msg.data.template_id)],
                       chan, sent \cup slot,
                       IF slot = {} THEN "Received unknown TransactionData?" ELSE "")
      [] msg.type = "CoinbasePrefixPostfix" ->
            IF ~check_msg_sig(h.auth_key, 7, msg.coinbase_prefix_postfix, msg.signature)
            THEN HandlerErr(h, chan, sent, "")
            ELSE IF TimestampIsNewer(h.cur_prefix_postfix, msg.coinbase_prefix_postfix)
            THEN LET h1 == [h EXCEPT !.cur_prefix_postfix = Some(msg.coinbase_prefix_postfix)]
                 IN  IF h.cur_template.some
                     THEN LET job == Job(p, h.cur_template.v, h1.cur_prefix_postfix)
                              push == start_send(chan, JobChanCapacity, job)
                          IN  IF SendFails(h.stream)
                              THEN HandlerPanic(h1, chan, sent, "Received new CoinbasePrefixPostfix")
                              ELSE
                              HandlerOk(
                                [h1 EXCEPT
                                   !.stream = unbounded_send(h.stream,
                                       [type |-> "TransactionDataRequest",
                                        template_id |-> h.cur_template.v.template_id]),
                                   !.pending_tx_data_requests =
                                       PendingInsert(h.pending_tx_data_requests, job.tx_data)],
                                push.chan, sent, "Received new CoinbasePrefixPostfix")
                     ELSE HandlerOk(h1, chan, sent, "Received new CoinbasePrefixPostfix")
            ELSE HandlerOk(h, chan, sent, "")

\* connection_closed, of both handlers
connection_closed(h) == [h EXCEPT !.stream = None]

Providers == DOMAIN jp

JobProviderHost(p) == <<"job_provider", p>>

PoolServerHost(q) == <<"pool_server", q>>

Pools == DOMAIN pool

\* the Eventuals that a queued job, the current job, a queued WorkInfo, a
\* router or a waiting closure holds; an Eventual that none of them holds is
\* dropped with its value
Referenced(jobs, cw, works) ==
    UNION { { jobs[p][i].tx_data : i \in 1..Len(jobs[p]) } : p \in DOMAIN jobs }
    \cup (IF cw.cur_job.some THEN {cw.cur_job.v.tx_data} ELSE {})
    \cup { works[i].tx_data : i \in 1..Len(works) }
    \cup { served[i].tx_data : i \in 1..Len(served) }
    \cup { callees[i].tx_data : i \in 1..Len(callees) }

RECURSIVE Queued(_, _)
\* the number of items queued on the channels of a set of hosts
Queued(chans, hosts) ==
    IF hosts = {} THEN 0
    ELSE LET h == CHOOSE x \in hosts : TRUE
         IN  Len(chans[h]) + Queued(chans, hosts \ {h})

\* the items queued between the handlers and the stratum server
Backlog == Queued(job_chan, Providers) + Queued(pool_chan, Pools) + Len(work_chan)

\* a new_connection that hands out the stream with nothing queued on it
JpNewConnectionSilent(p) ==
    /\ ~panicked
    /\ JobProviderHost(p) \in up
    /\ ~jp[p].stream.some
    /\ jp' = [jp EXCEPT ![p].stream = Some(Stream(<<>>))]
    /\ last' = [op |-> "JpNewConnection", host |-> p]
    /\ UNCHANGED <<job_chan, pool, pool_chan, cur_work, work_chan, ev_sent,
                   up, panicked, m_args, m_ret>>

\* a TCP connect succeeded: new_connection queues ProtocolSupport on a new stream
JpNewConnection(p) ==
    /\ ~panicked
    /\ JobProviderHost(p) \in up
    /\ ~jp[p].stream.some
    /\ jp' = [jp EXCEPT ![p].stream =
                Some(Stream(<<[type |-> "ProtocolSupport", max_version |-> 1, min_version |-> 1,
                               flags |-> IF Pools # {} THEN 0 ELSE 1]>>))]
    /\ last' = [op |-> "JpNewConnection", host |-> p]
    /\ UNCHANGED <<job_chan, pool, pool_chan, cur_work, work_chan, ev_sent,
                   up, panicked, m_args, m_ret>>

\* tx.send_all(stream): one poll moves all that is queued on the stream to the socket
JpSendPump(p) ==
    /\ ~panicked
    /\ jp[p].stream.some
    /\ jp[p].stream.v.receiver
    /\ jp[p].stream.v.queue # <<>>
    /\ jp' = [jp EXCEPT ![p].stream = Some(Stream(<<>>))]
    /\ last' = [op |-> "JpSendPump", host |-> p]
    /\ UNCHANGED <<job_chan, pool, pool_chan, cur_work, work_chan, ev_sent,
                   up, panicked, m_args, m_ret>>

\* the receive loop hands one decoded message to handle_message; on Err the loop
\* ends and connection_closed follows
JpHandleMessage(p, msg) ==
    /\ ~panicked
    /\ jp[p].stream.some
    /\ Len(jp[p].stream.v.queue) <= MaxBacklog
    /\ Backlog < MaxBacklog
    /\ \E r \in { jp_handle_message(p, jp[p], job_chan[p], ev_sent, msg) } :
           /\ jp' = [jp EXCEPT ![p] = IF r.res = "Err" THEN connection_closed(r.h) ELSE r.h]
           /\ job_chan' = [job_chan EXCEPT ![p] = r.chan]
           /\ ev_sent' = r.sent \cap Referenced([job_chan EXCEPT ![p] = r.chan], cur_work, work_chan)
           /\ panicked' = (r.res = "Panic")
           /\ last' = [op |-> "JpHandleMessage", host |-> p, type |-> msg.type,
                       res |-> r.res, log |-> r.log]
    /\ UNCHANGED <<pool, pool_chan, cur_work, work_chan,
                   up, m_args, m_ret>>

\* the receive loop ends on its own: the peer closed, or the framer returned an error
JpConnectionClosed(p) ==
    /\ ~panicked
    /\ jp[p].stream.some
    /\ jp' = [jp EXCEPT ![p] = connection_closed(jp[p])]
    /\ last' = [op |-> "JpConnectionClosed", host |-> p]
    /\ UNCHANGED <<job_chan, pool, pool_chan, cur_work, work_chan, ev_sent,
                   up, panicked, m_args, m_ret>>

-----------------------------------------------------------------------------
(* PoolHandler *)

\* PoolHandler::new
PoolHandlerNew ==
    [stream |-> None,
     auth_key |-> None,
     cur_payout_info |-> None,
     cur_difficulty |-> None,
     last_weak_block |-> None]

\* handle_message of a PoolHandler on handler state h and its job_stream chan
pool_handle_message(h, chan, msg) ==
    CASE msg.type = "ProtocolSupport" -> HandlerErr(h, chan, {}, "Received ProtocolSupport")
      [] msg.type = "ProtocolVersion" ->
            IF msg.selected_version # 1 THEN HandlerErr(h, chan, {}, "")
            ELSE IF ~h.auth_key.some
                 THEN HandlerOk([h EXCEPT !.auth_key = Some(msg.auth_key)], chan, {},
                                "Received ProtocolVersion, using version 1")
            ELSE IF UnexpectedAuthKey(h.auth_key, msg.auth_key)
                 THEN HandlerErr(h, chan, {}, "Got unexpected auth key")
            ELSE HandlerOk(h, chan, {}, "Received ProtocolVersion, using version 1")
      [] msg.type = "PayoutInfo" ->
            IF ~check_msg_sig(h.auth_key, 3, msg.payout_info, msg.signature)
            THEN HandlerErr(h, chan, {}, "")
            ELSE IF TimestampIsNewer(h.cur_payout_info, msg.payout_info)
            THEN LET push == start_send(chan, PoolChanCapacity,
                                        PoolInfo(msg.payout_info, h.cur_difficulty))
                 IN  HandlerOk([h EXCEPT !.cur_payout_info = Some(msg.payout_info)],
                               push.chan, {}, "Received new payout info!")
            ELSE HandlerOk(h, chan, {}, "")
      [] msg.type = "ShareDifficulty" ->
            LET h1 == [h EXCEPT !.cur_difficulty = Some(msg.difficulty)]
            IN  IF h.cur_payout_info.some
                THEN HandlerOk(h1,
                               start_send(chan, PoolChanCapacity,
                                          PoolInfo(h.cur_payout_info.v, h1.cur_difficulty)).chan,
                               {}, "Received new difficulty!")
                ELSE HandlerOk(h1, chan, {}, "Received new difficulty!")
      [] msg.type = "Share" -> HandlerErr(h, chan, {}, "Received Share?")
      [] msg.type = "WeakBlock" -> HandlerErr(h, chan, {}, "Received WeakBlock?")
      [] msg.type = "WeakBlockStateReset" ->
            HandlerOk([h EXCEPT !.last_weak_block = None], chan, {}, "Received WeakBlocKStateReset")

\* a TCP connect succeeded: new_connection makes the stream and clears last_weak_block
PoolNewConnection(q) ==
    /\ ~panicked
    /\ PoolServerHost(q) \in up
    /\ ~pool[q].stream.some
    /\ pool' = [pool EXCEPT ![q].stream = Some(Stream(<<>>)), ![q].last_weak_block = None]
    /\ last' = [op |-> "PoolNewConnection", host |-> q]
    /\ UNCHANGED <<jp, job_chan, pool_chan, cur_work, work_chan, ev_sent,
                   up, panicked, m_args, m_ret>>

\* the receive loop hands one decoded message to handle_message, whatever is
\* queued on the channels; on Err the loop ends and connection_closed follows
PoolReceive(q, msg) ==
    /\ ~panicked
    /\ pool[q].stream.some
    /\ \E r \in { pool_handle_message(pool[q], pool_chan[q], msg) } :
           /\ pool' = [pool EXCEPT ![q] = IF r.res = "Err" THEN connection_closed(r.h) ELSE r.h]
           /\ pool_chan' = [pool_chan EXCEPT ![q] = r.chan]
           /\ last' = [op |-> "PoolHandleMessage", host |-> q, type |-> msg.type,
                       res |-> r.res, log |-> r.log]
    /\ UNCHANGED <<jp, job_chan, cur_work, work_chan, ev_sent,
                   up, panicked, m_args, m_ret>>

\* a message is read while the merge tasks and the server keep up
PoolHandleMessage(q, msg) ==
    /\ Backlog < MaxBacklog
    /\ PoolReceive(q, msg)

PoolConnectionClosed(q) ==
    /\ ~panicked
    /\ pool[q].stream.some
    /\ pool' = [pool EXCEPT ![q] = connection_closed(pool[q])]
    /\ last' = [op |-> "PoolConnectionClosed", host |-> q]
    /\ UNCHANGED <<jp, job_chan, pool_chan, cur_work, work_chan, ev_sent,
                   up, panicked, m_args, m_ret>>

-----------------------------------------------------------------------------
(* JobInfo and the two update tasks of main *)

JobInfoNew ==
    [cur_job |-> None, cur_job_source |-> None, cur_pool |-> None, cur_pool_source |-> None]

\* PoolHandler::is_connected
is_connected(h) == h.stream.some

\* PoolHandler::get_priority: the index of the pool on the command line
get_priority(q) == q

TaskResult(cw, wc, merged, res) == [cur_work |-> cw, work_chan |-> wc, merged |-> merged, res |-> res]

\* the test that lets a job from a provider replace cur_job
JobIsNewer(cur_job, job) ==
    ~cur_job.some \/ cur_job.v.template.template_id < job.template.template_id

\* a job update task that keeps the job and not the handler it came from
job_merged_unsourced(cw, wc, p, job, r) ==
    IF r.kind = "Some"
    THEN TaskResult([cw EXCEPT !.cur_job = Some(job)],
                    start_send(wc, WorkChanCapacity, r.work).chan, TRUE, r.kind)
    ELSE TaskResult(cw, wc, TRUE, r.kind)

\* the match on what merge_job_pool returned to the job update task
job_merged(cw, wc, p, job, r) ==
    IF r.kind = "Some"
    THEN TaskResult([cw EXCEPT !.cur_job = Some(job), !.cur_job_source = Some(p)],
                    start_send(wc, WorkChanCapacity, r.work).chan, TRUE, r.kind)
    ELSE TaskResult(cw, wc, TRUE, r.kind)

\* a job update task that merges the job with no pool
job_update_solo(cw, wc, p, job, checks) ==
    IF JobIsNewer(cw.cur_job, job)
    THEN job_merged(cw, wc, p, job, merge_job_pool(S_op, Some(job), Some(p), None, None, checks))
    ELSE TaskResult(cw, wc, FALSE, "Skipped")

\* the body of job_rx.for_each for provider p
job_update(cw, wc, p, job, checks) ==
    IF JobIsNewer(cw.cur_job, job)
    THEN job_merged(cw, wc, p, job,
                    merge_job_pool(S_op, Some(job), Some(p), cw.cur_pool, cw.cur_pool_source, checks))
    ELSE TaskResult(cw, wc, FALSE, "Skipped")

\* a test that also turns away the active pool's own info
PoolIsOutrankedOrSame(cw, pools, q) ==
    /\ cw.cur_pool_source.some
    /\ is_connected(pools[cw.cur_pool_source.v])
    /\ get_priority(cw.cur_pool_source.v) <= get_priority(q)

\* whether the pool update task of q returns before merging: the active pool
\* is connected and of higher priority
PoolIsOutranked(cw, pools, q) ==
    /\ cw.cur_pool_source.some
    /\ is_connected(pools[cw.cur_pool_source.v])
    /\ get_priority(cw.cur_pool_source.v) < get_priority(q)

\* JobInfo with the pool's info stored
PoolStored(cw, q, pool_info) ==
    [cw EXCEPT !.cur_pool = Some(pool_info), !.cur_pool_source = Some(q)]

\* a pool_merged that stores the pool's info whenever no WorkInfo was merged
pool_merged_storing(cw, wc, q, pool_info, r) ==
    IF r.kind = "Some"
    THEN TaskResult(PoolStored(cw, q, pool_info),
                    start_send(wc, WorkChanCapacity, r.work).chan, TRUE, r.kind)
    ELSE IF r.kind = "None"
    THEN TaskResult(PoolStored(cw, q, pool_info), wc, TRUE, r.kind)
    ELSE TaskResult(cw, wc, TRUE, r.kind)

\* the match on what merge_job_pool returned to the pool update task
pool_merged(cw, wc, q, pool_info, r) ==
    IF r.kind = "Some"
    THEN TaskResult(PoolStored(cw, q, pool_info),
                    start_send(wc, WorkChanCapacity, r.work).chan, TRUE, r.kind)
    ELSE IF r.kind = "None" /\ ~cw.cur_job.some
    THEN TaskResult(PoolStored(cw, q, pool_info), wc, TRUE, r.kind)
    ELSE TaskResult(cw, wc, TRUE, r.kind)

\* the body of pool_rx.for_each for pool q
pool_update(cw, wc, pools, q, pool_info, checks) ==
    IF PoolIsOutranked(cw, pools, q) THEN TaskResult(cw, wc, FALSE, "Skipped")
    ELSE pool_merged(cw, wc, q, pool_info,
                     merge_job_pool(S_op, cw.cur_job, cw.cur_job_source,
                                    Some(pool_info), Some(q), checks))

JobUpdateTask(p) ==
    /\ ~panicked
    /\ job_chan[p] # <<>>
    /\ \E checks \in BOOLEAN :
         \E r \in { job_update(cur_work, work_chan, p, Head(job_chan[p]), checks) } :
           /\ cur_work' = r.cur_work
           /\ work_chan' = r.work_chan
           /\ panicked' = (r.res = "Panic")
           /\ last' = [op |-> "JobUpdateTask", host |-> p, res |-> r.res]
    /\ job_chan' = [job_chan EXCEPT ![p] = Tail(job_chan[p])]
    /\ ev_sent' = ev_sent \cap Referenced(job_chan', cur_work', work_chan')
    /\ UNCHANGED <<jp, pool, pool_chan, up, m_args, m_ret>>

PoolUpdateTask(q) ==
    /\ ~panicked
    /\ pool_chan[q] # <<>>
    /\ \E checks \in BOOLEAN :
         \E r \in { pool_update(cur_work, work_chan, pool, q, Head(pool_chan[q]), checks) } :
           /\ cur_work' = r.cur_work
           /\ work_chan' = r.work_chan
           /\ panicked' = (r.res = "Panic")
           /\ last' = [op |-> "PoolUpdateTask", host |-> q, res |-> r.res]
    /\ pool_chan' = [pool_chan EXCEPT ![q] = Tail(pool_chan[q])]
    /\ UNCHANGED <<jp, job_chan, pool, ev_sent, up, m_args, m_ret>>

\* the stratum server takes the next WorkInfo from job_rx
ServerRecv ==
    /\ ~panicked
    /\ work_chan # <<>>
    /\ work_chan' = Tail(work_chan)
    /\ ev_sent' = ev_sent \cap Referenced(job_chan, cur_work, work_chan')
    /\ last' = [op |-> "ServerRecv"]
    /\ UNCHANGED <<jp, job_chan, pool, pool_chan, cur_work,
                   up, panicked, m_args, m_ret>>

-----------------------------------------------------------------------------
(* The stratum server, the solution routers and the Eventuals *)

\* how many WorkInfos the stratum server keeps the solutions sender of
MaxServed == 1

\* how many solutions the miners find in a run
MaxSolutions == 1

\* the block hashes of the solutions: 0x00..0064 and 0x00..00a0
Hashes == { Target(0, 100), Target(0, 160) }

\* tx.send_all(stream) of a pool's connection
PoolSendPump(q) ==
    /\ ~panicked
    /\ pool[q].stream.some
    /\ pool[q].stream.v.receiver
    /\ pool[q].stream.v.queue # <<>>
    /\ pool' = [pool EXCEPT ![q].stream = Some(Stream(<<>>))]
    /\ last' = [op |-> "PoolSendPump", host |-> q]
    /\ UNCHANGED <<jp, job_chan, pool_chan, cur_work, work_chan, ev_sent,
                   up, panicked, m_args, m_ret>>

\* a server that drops no solutions sender
KeepAll(seq, n) == seq

\* the last n items of a sequence
KeepLast(seq, n) ==
    IF Len(seq) <= n THEN seq ELSE SubSeq(seq, Len(seq) - n + 1, Len(seq))

\* the stratum server takes the next WorkInfo from job_rx and keeps its
\* solutions sender; it drops the sender of the oldest WorkInfo it kept
ServerTake ==
    /\ ~panicked
    /\ work_chan # <<>>
    /\ work_chan' = Tail(work_chan)
    /\ served' = KeepLast(Append(served, Head(work_chan)), MaxServed)
    /\ last' = [op |-> "ServerTake"]
    /\ UNCHANGED <<jp, job_chan, pool, pool_chan, cur_work, ev_sent,
                   up, panicked, m_args, m_ret, ev_value, callees, sols>>

\* (WinningNonce, Sha256dHash): the nonce stands for the WinningNonce
Solution(nonce, hash) == [nonce |-> nonce, hash |-> hash]

\* JobProviderHandler::send_nonce
jp_send_nonce(h, work) ==
    IF h.stream.some /\ ~SendFails(h.stream)
    THEN [h EXCEPT !.stream = unbounded_send(h.stream,
                                [type |-> "WinningNonce", nonces |-> work.nonce])]
    ELSE h

\* whether PoolHandler::send_nonce sends a Share: the pool gave a difficulty,
\* the hash meets its share_target and the stream takes the message
ShareSubmitted(h, work) ==
    /\ h.cur_difficulty.some
    /\ does_hash_meet_target(work.hash, h.cur_difficulty.v.share_target)
    /\ h.stream.some
    /\ ~SendFails(h.stream)

\* PoolHandler::send_nonce
pool_send_nonce(h, work, template) ==
    IF ShareSubmitted(h, work)
    THEN [h EXCEPT !.stream = unbounded_send(h.stream,
                                [type |-> "Share",
                                 share |-> [header_nbits |-> template.header_nbits,
                                            header_nonce |-> work.nonce,
                                            merkle_rhss |-> template.merkle_rhss]])]
    ELSE h

\* the closure the router hands to get_and
Callee(w, work) ==
    [tx_data |-> w.tx_data, nonces |-> work, template |-> w.template, source |-> w.payout_source.v]

\* a get_and that calls the closure at once, whether the value is there or not
get_and_at_once(value, w) == w.payout_source.some

\* Eventual::get_and: whether the closure is called at once
get_and(value, w) == w.payout_source.some /\ w.tx_data \in value

\* what is remembered of a solution: the WorkInfo it was found on, whether that
\* was the last WorkInfo the server had taken, and how many WinningNonces and
\* Shares were sent for it
SolutionRecord(w, work, winning, shares) ==
    [nonce |-> work.nonce, hash |-> work.hash, tx_data |-> w.tx_data,
     template_id |-> w.template.template_id, target |-> w.template.target,
     job_source |-> w.job_source, payout_source |-> w.payout_source,
     active |-> w = served[Len(served)],
     winning |-> winning, shares |-> shares]

\* the body of solution_rx.for_each of the router of WorkInfo w
router(w, work, to_job, now) ==
    /\ jp' = IF to_job THEN [jp EXCEPT ![w.job_source.v] = jp_send_nonce(@, work)] ELSE jp
    /\ pool' = IF now
               THEN [pool EXCEPT ![w.payout_source.v] = pool_send_nonce(@, work, w.template)]
               ELSE pool
    /\ callees' = IF w.payout_source.some /\ ~now THEN Append(callees, Callee(w, work))
                  ELSE callees
    /\ sols' = Append(sols, SolutionRecord(w, work,
                   IF to_job /\ jp_send_nonce(jp[w.job_source.v], work) # jp[w.job_source.v]
                   THEN 1 ELSE 0,
                   IF now /\ ShareSubmitted(pool[w.payout_source.v], work) THEN 1 ELSE 0))

\* the stratum server sends a solution on the solutions sender of the i-th
\* WorkInfo it keeps, and that WorkInfo's router takes it
RouterSolutionOf(i, hash, solutions) ==
    /\ ~panicked
    /\ i \in 1..Len(served)
    /\ Len(sols) < solutions
    /\ \E w \in { served[i] }, work \in { Solution(Len(sols) + 1, hash) } :
         router(w, work,
                w.job_source.some /\ does_hash_meet_target(hash, w.template.target),
                get_and(ev_value, w))
    /\ last' = [op |-> "RouterSolution", work |-> i, hash |-> hash]
    /\ UNCHANGED <<job_chan, pool_chan, cur_work, work_chan, ev_sent,
                   up, panicked, m_args, m_ret, served, ev_value>>

\* the same, in a run in which the miners find MaxSolutions solutions
RouterSolution(i, hash) == RouterSolutionOf(i, hash, MaxSolutions)

RECURSIVE run_callees_lifo(_, _, _)
\* a loop over callees that starts with the closure pushed last
run_callees_lifo(list, pools, ss) ==
    IF list = <<>> THEN [pool |-> pools, sols |-> ss]
    ELSE run_callees_lifo(SubSeq(list, 1, Len(list) - 1),
                          [pools EXCEPT ![list[Len(list)].source] =
                              pool_send_nonce(@, list[Len(list)].nonces, list[Len(list)].template)],
                          IF ShareSubmitted(pools[list[Len(list)].source], list[Len(list)].nonces)
                          THEN [ss EXCEPT ![list[Len(list)].nonces.nonce].shares = @ + 1]
                          ELSE ss)

RECURSIVE run_callees(_, _, _)
\* the loop over callees of the task that Eventual::new spawned
run_callees(list, pools, ss) ==
    IF list = <<>> THEN [pool |-> pools, sols |-> ss]
    ELSE run_callees(Tail(list),
                     [pools EXCEPT ![Head(list).source] =
                         pool_send_nonce(@, Head(list).nonces, Head(list).template)],
                     IF ShareSubmitted(pools[Head(list).source], Head(list).nonces)
                     THEN [ss EXCEPT ![Head(list).nonces.nonce].shares = @ + 1]
                     ELSE ss)

\* the closures that wait on Eventual e, and the others
Waiting(e) == SelectSeq(callees, LAMBDA c : c.tx_data = e)

NotWaiting(e) == SelectSeq(callees, LAMBDA c : c.tx_data # e)

\* the task that Eventual::new spawned runs once the oneshot holds the data: it
\* calls the callees, clears them and sets the value
EventualResolve(e) ==
    /\ ~panicked
    /\ e \in ev_sent \ ev_value
    /\ \E r \in { run_callees(Waiting(e), pool, sols) } :
         /\ pool' = r.pool
         /\ sols' = r.sols
    /\ callees' = NotWaiting(e)
    /\ ev_value' = (ev_value \cup {e}) \cap ev_sent
    /\ last' = [op |-> "EventualResolve", tx_data |-> e]
    /\ UNCHANGED <<jp, job_chan, pool_chan, cur_work, work_chan, ev_sent,
                   up, panicked, m_args, m_ret, served>>

-----------------------------------------------------------------------------
(* The proxy with one job provider and two pools *)

JobProviderHosts == {1}

PoolServerHosts == {0, 1}

\* the connections are made and closed as the run has it, by no maintainer
NoMaintainers == <<>>

\* a sample pool that has accepted no connection
NoSample == [max_client_id |-> 0, clients |-> {}, conns |-> <<>>, server_id |-> None,
             received |-> 0]

\* a Framed stream nothing was written to
NoWire == [framer |-> "work", sent |-> <<>>, pending |-> <<>>, buf |-> <<>>]

NoCall == [job_info |-> None, payout_info |-> None, checks |-> FALSE]

Idle == [kind |-> "Idle"]

SysInit(providers, pools, reachable) ==
    /\ up \in reachable
    /\ jp = [p \in providers |-> JobProviderHandlerNew]
    /\ job_chan = [p \in providers |-> <<>>]
    /\ pool = [q \in pools |-> PoolHandlerNew]
    /\ pool_chan = [q \in pools |-> <<>>]
    /\ cur_work = JobInfoNew
    /\ work_chan = <<>>
    /\ ev_sent = {}
    /\ panicked = FALSE
    /\ last = [op |-> "Init"]
    /\ served = <<>>
    /\ ev_value = {}
    /\ callees = <<>>
    /\ sols = <<>>

\* the runs in which the job provider is reachable and no pool is, and those
\* in which the first pool is and the job provider is not
OneSideUp ==
    { { JobProviderHost(p) : p \in JobProviderHosts },
      { PoolServerHost(0) } }

Init ==
    /\ SysInit(JobProviderHosts, PoolServerHosts, OneSideUp)
    /\ conn = NoMaintainers
    /\ wire = NoWire
    /\ sample = NoSample
    /\ m_args = NoCall
    /\ m_ret = Idle

Next ==
    \/ \E p \in Providers : JpNewConnection(p) /\ UNCHANGED <<connvars, routervars>>
    \/ \E p \in Providers : JpSendPump(p) /\ UNCHANGED <<connvars, routervars>>
    \/ \E p \in Providers, msg \in WorkMessages : JpHandleMessage(p, msg) /\ UNCHANGED <<connvars, routervars>>
    \/ \E p \in Providers : JpConnectionClosed(p) /\ UNCHANGED <<connvars, routervars>>
    \/ \E q \in Pools : PoolNewConnection(q) /\ UNCHANGED <<connvars, routervars>>
    \/ \E q \in Pools, msg \in PoolMessages : PoolHandleMessage(q, msg) /\ UNCHANGED <<connvars, routervars>>
    \/ \E q \in Pools : PoolConnectionClosed(q) /\ UNCHANGED <<connvars, routervars>>
    \/ \E p \in Providers : JobUpdateTask(p) /\ UNCHANGED <<connvars, routervars>>
    \/ \E q \in Pools : PoolUpdateTask(q) /\ UNCHANGED <<connvars, routervars>>
    \/ ServerRecv /\ UNCHANGED <<connvars, routervars>>

Spec == Init /\ [][Next]_vars

-----------------------------------------------------------------------------
(* The proxy with its job provider and its first pool both reachable: the
   provider sends its version and its templates, the pool its version, its
   payout info and its difficulty, all of them signed as they should be; some
   templates and some payout infos carry outputs the merge refuses *)

PeerWorkMessages ==
    { msg \in WorkMessagesOf(Templates \cup OverspentTemplates) :
        CASE msg.type = "ProtocolVersion" -> msg.selected_version = 1 /\ msg.auth_key = PeerKey
          [] msg.type = "BlockTemplate" ->
                msg.signature = Sign(PeerKey, Sha256(3, msg.template))
          [] OTHER -> FALSE }

PeerPoolMessages ==
    { msg \in PoolMessagesOf(PayoutInfos \cup ExcessivePayoutInfos) :
        CASE msg.type = "ProtocolVersion" -> msg.selected_version = 1 /\ msg.auth_key = PeerKey
          [] msg.type = "PayoutInfo" ->
                msg.signature = Sign(PeerKey, Sha256(3, msg.payout_info))
          [] msg.type = "ShareDifficulty" -> TRUE
          [] OTHER -> FALSE }

WorkInit ==
    /\ SysInit(JobProviderHosts, PoolServerHosts,
               { { JobProviderHost(1), PoolServerHost(0) } })
    /\ conn = NoMaintainers
    /\ wire = NoWire
    /\ sample = NoSample
    /\ m_args = NoCall
    /\ m_ret = Idle

WorkNext ==
    \/ \E p \in Providers : JpNewConnection(p) /\ UNCHANGED <<connvars, routervars>>
    \/ \E p \in Providers : JpSendPump(p) /\ UNCHANGED <<connvars, routervars>>
    \/ \E p \in Providers, msg \in PeerWorkMessages : JpHandleMessage(p, msg) /\ UNCHANGED <<connvars, routervars>>
    \/ \E q \in Pools : PoolNewConnection(q) /\ UNCHANGED <<connvars, routervars>>
    \/ \E q \in Pools, msg \in PeerPoolMessages : PoolHandleMessage(q, msg) /\ UNCHANGED <<connvars, routervars>>
    \/ \E p \in Providers : JobUpdateTask(p) /\ UNCHANGED <<connvars, routervars>>
    \/ \E q \in Pools : PoolUpdateTask(q) /\ UNCHANGED <<connvars, routervars>>
    \/ ServerRecv /\ UNCHANGED <<connvars, routervars>>

SpecWork == WorkInit /\ [][WorkNext]_vars

-----------------------------------------------------------------------------
(* The proxy with its two pools reachable and its job provider not *)

PoolsInit ==
    /\ SysInit(JobProviderHosts, PoolServerHosts,
               { { PoolServerHost(q) : q \in PoolServerHosts } })
    /\ conn = NoMaintainers
    /\ wire = NoWire
    /\ sample = NoSample
    /\ m_args = NoCall
    /\ m_ret = Idle

PoolsNext ==
    \/ \E q \in Pools : PoolNewConnection(q) /\ UNCHANGED <<connvars, routervars>>
    \/ \E q \in Pools, msg \in PeerPoolMessages : PoolHandleMessage(q, msg) /\ UNCHANGED <<connvars, routervars>>
    \/ \E q \in Pools : PoolConnectionClosed(q) /\ UNCHANGED <<connvars, routervars>>
    \/ \E q \in Pools : PoolUpdateTask(q) /\ UNCHANGED <<connvars, routervars>>

SpecPools == PoolsInit /\ [][PoolsNext]_vars

-----------------------------------------------------------------------------
(* The proxy between its job provider, its first pool and the stratum server,
   from the moment both upstreams are connected and have sent their version:
   the provider sends templates and their transactions, the pool its payout
   info and its difficulties, the server keeps the WorkInfos it takes, and the
   miners find solutions on them *)

\* a difficulty whose targets are below the templates' target, and one whose
\* targets are not
RouterDifficulties ==
    { PoolDifficulty(Target(0, 127), Target(1, 127)),
      PoolDifficulty(Target(0, 255), Target(0, 255)) }

RouterWorkMessages ==
    { msg \in WorkMessages :
        msg.type \in {"BlockTemplate", "TransactionData"}
        /\ CorrectlySignedBy(PeerKey, msg) }

RouterPoolMessages ==
    { [type |-> "PayoutInfo", signature |-> Sign(PeerKey, Sha256(3, i)), payout_info |-> i]
      : i \in { PoolPayoutInfo(1, 250, <<9>>, S_pool, <<>>) } }
    \cup { [type |-> "ShareDifficulty", difficulty |-> d] : d \in RouterDifficulties }

\* the handlers once their connection is made, ProtocolSupport is written and the
\* peer's ProtocolVersion is accepted
JobProviderHandlerGreeted ==
    [JobProviderHandlerNew EXCEPT !.stream = Some(Stream(<<>>)), !.auth_key = Some(PeerKey)]

PoolHandlerGreeted ==
    [PoolHandlerNew EXCEPT !.stream = Some(Stream(<<>>)), !.auth_key = Some(PeerKey)]

RouterInit ==
    /\ up = { JobProviderHost(1), PoolServerHost(0) }
    /\ jp = [p \in JobProviderHosts |-> JobProviderHandlerGreeted]
    /\ job_chan = [p \in JobProviderHosts |-> <<>>]
    /\ pool = [q \in {0} |-> PoolHandlerGreeted]
    /\ pool_chan = [q \in {0} |-> <<>>]
    /\ cur_work = JobInfoNew
    /\ work_chan = <<>>
    /\ ev_sent = {}
    /\ panicked = FALSE
    /\ last = [op |-> "Init"]
    /\ served = <<>>
    /\ ev_value = {}
    /\ callees = <<>>
    /\ sols = <<>>
    /\ conn = NoMaintainers
    /\ wire = NoWire
    /\ sample = NoSample
    /\ m_args = NoCall
    /\ m_ret = Idle

RouterNext ==
    \/ \E p \in Providers : JpSendPump(p) /\ UNCHANGED <<connvars, routervars>>
    \/ \E p \in Providers, msg \in RouterWorkMessages : JpHandleMessage(p, msg) /\ UNCHANGED <<connvars, routervars>>
    \/ \E q \in Pools : PoolSendPump(q) /\ UNCHANGED <<connvars, routervars>>
    \/ \E q \in Pools, msg \in RouterPoolMessages : PoolHandleMessage(q, msg) /\ UNCHANGED <<connvars, routervars>>
    \/ \E p \in Providers : JobUpdateTask(p) /\ UNCHANGED <<connvars, routervars>>
    \/ \E q \in Pools : PoolUpdateTask(q) /\ UNCHANGED <<connvars, routervars>>
    \/ ServerTake /\ UNCHANGED connvars
    \/ \E i \in 1..MaxServed, hash \in Hashes : RouterSolution(i, hash) /\ UNCHANGED connvars
    \/ \E e \in ev_sent : EventualResolve(e) /\ UNCHANGED connvars

SpecRouter == RouterInit /\ [][RouterNext]_vars

-----------------------------------------------------------------------------
(* The proxy between its job provider and the stratum server while its first
   pool stays connected: the pool has sent its version, its payout info and
   its difficulty, and JobInfo holds them; the provider sends templates,
   coinbase postfixes and transactions *)

\* what the pool sent before the first template
ReissuePayoutInfo == PoolPayoutInfo(1, 250, <<9>>, S_pool, <<>>)

ReissueDifficulty == PoolDifficulty(Target(0, 255), Target(0, 255))

ReissueWorkMessages ==
    { msg \in WorkMessages :
        msg.type \in {"BlockTemplate", "TransactionData", "CoinbasePrefixPostfix"}
        /\ CorrectlySignedBy(PeerKey, msg) }

\* the pool's handler and JobInfo once the pool update task has stored the
\* pool's payout info and difficulty
PoolHandlerInformed ==
    [PoolHandlerGreeted EXCEPT !.cur_payout_info = Some(ReissuePayoutInfo),
                               !.cur_difficulty = Some(ReissueDifficulty)]

JobInfoInformed ==
    PoolStored(JobInfoNew, 0, PoolInfo(ReissuePayoutInfo, Some(ReissueDifficulty)))

ReissueInit ==
    /\ up = { JobProviderHost(1), PoolServerHost(0) }
    /\ jp = [p \in JobProviderHosts |-> JobProviderHandlerGreeted]
    /\ job_chan = [p \in JobProviderHosts |-> <<>>]
    /\ pool = [q \in {0} |-> PoolHandlerInformed]
    /\ pool_chan = [q \in {0} |-> <<>>]
    /\ cur_work = JobInfoInformed
    /\ work_chan = <<>>
    /\ ev_sent = {}
    /\ panicked = FALSE
    /\ last = [op |-> "Init"]
    /\ served = <<>>
    /\ ev_value = {}
    /\ callees = <<>>
    /\ sols = <<>>
    /\ conn = NoMaintainers
    /\ wire = NoWire
    /\ sample = NoSample
    /\ m_args = NoCall
    /\ m_ret = Idle

ReissueNext ==
    \/ \E p \in Providers : JpSendPump(p) /\ UNCHANGED <<connvars, routervars>>
    \/ \E p \in Providers, msg \in ReissueWorkMessages : JpHandleMessage(p, msg) /\ UNCHANGED <<connvars, routervars>>
    \/ \E q \in Pools : PoolSendPump(q) /\ UNCHANGED <<connvars, routervars>>
    \/ \E p \in Providers : JobUpdateTask(p) /\ UNCHANGED <<connvars, routervars>>
    \/ ServerTake /\ UNCHANGED connvars
    \/ \E i \in 1..MaxServed, hash \in Hashes : RouterSolution(i, hash) /\ UNCHANGED connvars
    \/ \E e \in ev_sent : EventualResolve(e) /\ UNCHANGED connvars

SpecReissue == ReissueInit /\ [][ReissueNext]_vars

-----------------------------------------------------------------------------
(* ConnectionMaintainer: one per configured host. Of the addresses a host
   resolves to only their number matters; timers, connects and recv_loops count
   the tasks the maintainer has spawned that have not run to their end *)

\* the most addresses a host name resolves to
MaxAddrs == 2

ConnectionMaintainerNew == [cur_addrs |-> None, timers |-> 0, connects |-> 0, recv_loops |-> 0]

\* what host.to_socket_addrs() returns: Err, or Ok with some addresses
Resolutions == { None } \cup { Some(n) : n \in 0..MaxAddrs }

\* make_connection without the second timer: an exhausted address list leaves
\* nothing behind
make_connection_once(c, resolved) ==
    IF ~c.cur_addrs.some /\ ~resolved.some
    THEN [c EXCEPT !.timers = @ + 1]
    ELSE LET addrs == IF c.cur_addrs.some THEN c.cur_addrs.v ELSE resolved.v
         IN  IF addrs = 0
             THEN [c EXCEPT !.cur_addrs = None]
             ELSE [c EXCEPT !.cur_addrs = Some(addrs - 1), !.connects = @ + 1]

\* make_connection: resolve the host if no address list is held, and sleep
\* 30 seconds if that fails; else pop an address and connect to it, or, the
\* list being empty, forget it and sleep 30 seconds
make_connection(c, resolved) ==
    IF ~c.cur_addrs.some /\ ~resolved.some
    THEN [c EXCEPT !.timers = @ + 1]
    ELSE LET addrs == IF c.cur_addrs.some THEN c.cur_addrs.v ELSE resolved.v
         IN  IF addrs = 0
             THEN [c EXCEPT !.cur_addrs = None, !.timers = @ + 1]
             ELSE [c EXCEPT !.cur_addrs = Some(addrs - 1), !.connects = @ + 1]

\* the maintainer of host h, left as c by the task that ended, makes a connection
MakeConnection(h, c) ==
    \E resolved \in Resolutions : conn' = [conn EXCEPT ![h] = make_connection(c, resolved)]

\* the 30 seconds are over
TimerFired(h) ==
    /\ ~panicked
    /\ conn[h].timers > 0
    /\ MakeConnection(h, [conn[h] EXCEPT !.timers = @ - 1])
    /\ last' = [op |-> "TimerFired", host |-> h]
    /\ UNCHANGED <<jp, job_chan, pool, pool_chan, cur_work, work_chan, ev_sent,
                   up, panicked, m_args, m_ret, routervars, wire, sample>>

\* TcpStream::connect resolved to Err
ConnectFailed(h) ==
    /\ ~panicked
    /\ conn[h].connects > 0
    /\ MakeConnection(h, [conn[h] EXCEPT !.connects = @ - 1])
    /\ last' = [op |-> "ConnectFailed", host |-> h]
    /\ UNCHANGED <<jp, job_chan, pool, pool_chan, cur_work, work_chan, ev_sent,
                   up, panicked, m_args, m_ret, routervars, wire, sample>>

\* the connect task ends having spawned the send pump and the receive loop
Connected(c) == [c EXCEPT !.connects = @ - 1, !.recv_loops = @ + 1]

\* the receive loop ended
Disconnected(c) == [c EXCEPT !.recv_loops = @ - 1]

\* TcpStream::connect resolved to Ok for the job provider
JpConnected(p) ==
    /\ conn[JobProviderHost(p)].connects > 0
    /\ JpNewConnection(p)
    /\ conn' = [conn EXCEPT ![JobProviderHost(p)] = Connected(@)]
    /\ UNCHANGED <<routervars, wire, sample>>

\* the receive loop of the job provider's connection handles a message, and on
\* Err goes on to connection_closed and make_connection
JpReceived(p, msg) ==
    /\ conn[JobProviderHost(p)].recv_loops > 0
    /\ JpHandleMessage(p, msg)
    /\ IF last'.res = "Err"
       THEN MakeConnection(JobProviderHost(p), Disconnected(conn[JobProviderHost(p)]))
       ELSE conn' = conn
    /\ UNCHANGED <<routervars, wire, sample>>

\* the receive loop of the job provider's connection ends on its own
JpReceiveEnded(p) ==
    /\ conn[JobProviderHost(p)].recv_loops > 0
    /\ JpConnectionClosed(p)
    /\ MakeConnection(JobProviderHost(p), Disconnected(conn[JobProviderHost(p)]))
    /\ UNCHANGED <<routervars, wire, sample>>

\* tx.send_all(stream) ends with a write error: the task prints and is done, and
\* the receiving end of the handler's stream is dropped with it
JpSendPumpEnded(p) ==
    /\ ~panicked
    /\ jp[p].stream.some
    /\ jp[p].stream.v.receiver
    /\ jp' = [jp EXCEPT ![p].stream = Some([queue |-> <<>>, receiver |-> FALSE])]
    /\ last' = [op |-> "JpSendPumpEnded", host |-> p]
    /\ UNCHANGED <<job_chan, pool, pool_chan, cur_work, work_chan, ev_sent,
                   up, panicked, m_args, m_ret, connvars, routervars>>

PoolConnected(q) ==
    /\ conn[PoolServerHost(q)].connects > 0
    /\ PoolNewConnection(q)
    /\ conn' = [conn EXCEPT ![PoolServerHost(q)] = Connected(@)]
    /\ UNCHANGED <<routervars, wire, sample>>

PoolReceived(q, msg) ==
    /\ conn[PoolServerHost(q)].recv_loops > 0
    /\ PoolHandleMessage(q, msg)
    /\ IF last'.res = "Err"
       THEN MakeConnection(PoolServerHost(q), Disconnected(conn[PoolServerHost(q)]))
       ELSE conn' = conn
    /\ UNCHANGED <<routervars, wire, sample>>

PoolReceiveEnded(q) ==
    /\ conn[PoolServerHost(q)].recv_loops > 0
    /\ PoolConnectionClosed(q)
    /\ MakeConnection(PoolServerHost(q), Disconnected(conn[PoolServerHost(q)]))
    /\ UNCHANGED <<routervars, wire, sample>>

PoolSendPumpEnded(q) ==
    /\ ~panicked
    /\ pool[q].stream.some
    /\ pool[q].stream.v.receiver
    /\ pool' = [pool EXCEPT ![q].stream = Some([queue |-> <<>>, receiver |-> FALSE])]
    /\ last' = [op |-> "PoolSendPumpEnded", host |-> q]
    /\ UNCHANGED <<jp, job_chan, pool_chan, cur_work, work_chan, ev_sent,
                   up, panicked, m_args, m_ret, connvars, routervars>>

\* what the job provider sends in these runs: its version, its first template
\* and its first postfix under its key, and a ProtocolSupport, which no client
\* accepts
ConnWorkMessages ==
    { msg \in WorkMessages :
        \/ msg.type = "ProtocolSupport"
        \/ msg.type = "ProtocolVersion" /\ msg.selected_version = 1 /\ msg.auth_key = PeerKey
        \/ /\ msg.type = "BlockTemplate"
           /\ msg.template.template_id = 1
           /\ CorrectlySignedBy(PeerKey, msg)
        \/ /\ msg.type = "CoinbasePrefixPostfix"
           /\ msg.coinbase_prefix_postfix.timestamp = 1
           /\ CorrectlySignedBy(PeerKey, msg) }

ConnPoolMessages ==
    { msg \in PoolMessages :
        \/ msg.type = "ProtocolSupport"
        \/ msg.type = "ProtocolVersion" /\ msg.selected_version = 1 /\ msg.auth_key = PeerKey }

ConnHosts == { JobProviderHost(1), PoolServerHost(0) }

\* main has called make_connection once for each host
ConnInit ==
    /\ SysInit({1}, {0}, { ConnHosts })
    /\ conn \in [ConnHosts -> { make_connection(ConnectionMaintainerNew, resolved) : resolved \in Resolutions }]
    /\ wire = NoWire
    /\ sample = NoSample
    /\ m_args = NoCall
    /\ m_ret = Idle

ConnNext ==
    \/ \E h \in ConnHosts : TimerFired(h)
    \/ \E h \in ConnHosts : ConnectFailed(h)
    \/ \E p \in Providers : JpConnected(p)
    \/ \E p \in Providers : JpSendPump(p) /\ UNCHANGED <<connvars, routervars>>
    \/ \E p \in Providers : JpSendPumpEnded(p)
    \/ \E p \in Providers, msg \in ConnWorkMessages : JpReceived(p, msg)
    \/ \E p \in Providers : JpReceiveEnded(p)
    \/ \E q \in Pools : PoolConnected(q)
    \/ \E q \in Pools : PoolSendPumpEnded(q)
    \/ \E q \in Pools, msg \in ConnPoolMessages : PoolReceived(q, msg)
    \/ \E q \in Pools : PoolReceiveEnded(q)
    \/ \E p \in Providers : JobUpdateTask(p) /\ UNCHANGED <<connvars, routervars>>
    \/ ServerRecv /\ UNCHANGED <<connvars, routervars>>

SpecConn == ConnInit /\ [][ConnNext]_vars

-----------------------------------------------------------------------------
(* One job provider, with one pool server configured or with none *)

\* the hosts main makes connections to
ConfiguredHosts == { JobProviderHost(p) : p \in Providers } \cup { PoolServerHost(q) : q \in Pools }

SupportInit ==
    /\ \E pools \in { {}, {0} } :
          SysInit({1}, pools, { { JobProviderHost(1) } \cup { PoolServerHost(q) : q \in pools } })
    /\ conn \in [ConfiguredHosts -> { make_connection(ConnectionMaintainerNew, resolved) : resolved \in Resolutions }]
    /\ wire = NoWire
    /\ sample = NoSample
    /\ m_args = NoCall
    /\ m_ret = Idle

SupportNext ==
    \/ \E h \in ConfiguredHosts : TimerFired(h)
    \/ \E h \in ConfiguredHosts : ConnectFailed(h)
    \/ \E p \in Providers : JpConnected(p)
    \/ \E p \in Providers : JpSendPump(p) /\ UNCHANGED <<connvars, routervars>>
    \/ \E p \in Providers : JpSendPumpEnded(p)
    \/ \E p \in Providers, msg \in ConnWorkMessages : JpReceived(p, msg)
    \/ \E p \in Providers : JpReceiveEnded(p)
    \/ \E q \in Pools : PoolConnected(q)
    \/ \E q \in Pools : PoolSendPumpEnded(q)
    \/ \E q \in Pools, msg \in ConnPoolMessages : PoolReceived(q, msg)
    \/ \E q \in Pools : PoolReceiveEnded(q)
    \/ \E p \in Providers : JobUpdateTask(p) /\ UNCHANGED <<connvars, routervars>>
    \/ ServerRecv /\ UNCHANGED <<connvars, routervars>>

SpecSupport == SupportInit /\ [][SupportNext]_vars

-----------------------------------------------------------------------------
(* A pool whose messages arrive faster than the pool update task takes them
   from its channel: rx.for_each handles every message a read has buffered
   before any other task runs *)

FloodPoolMessages ==
    { msg \in PoolMessages :
        \/ msg.type = "ProtocolVersion" /\ msg.selected_version = 1 /\ msg.auth_key = PeerKey
        \/ msg.type = "PayoutInfo" /\ CorrectlySignedBy(PeerKey, msg) }
    \cup { [type |-> "ShareDifficulty", difficulty |-> d] : d \in RouterDifficulties }

FloodInit ==
    /\ SysInit({1}, {0}, { { PoolServerHost(0) } })
    /\ conn = NoMaintainers
    /\ wire = NoWire
    /\ sample = NoSample
    /\ m_args = NoCall
    /\ m_ret = Idle

FloodNext ==
    \/ \E q \in Pools : PoolNewConnection(q) /\ UNCHANGED <<connvars, routervars>>
    \/ \E q \in Pools, msg \in FloodPoolMessages : PoolReceive(q, msg) /\ UNCHANGED <<connvars, routervars>>
    \/ \E q \in Pools : PoolConnectionClosed(q) /\ UNCHANGED <<connvars, routervars>>
    \/ \E q \in Pools : PoolUpdateTask(q) /\ UNCHANGED <<connvars, routervars>>

SpecFlood == FloodInit /\ [][FloodNext]_vars

-----------------------------------------------------------------------------
(* A job provider that sends templates faster than the job update task takes
   them, on one connection; nothing is taken from the outbound stream or from
   the work channel meanwhile *)

\* one template more than the job channel holds, each newer than the one before
FloodTemplates ==
    { BlockTemplate(id, Target(0, 255), FiveBillion, <<1, 2>>, <<>>) : id \in 1..(JobChanCapacity + 1) }

FloodWorkMessages ==
    { msg \in WorkMessagesOf(FloodTemplates) :
        \/ msg.type = "ProtocolVersion" /\ msg.selected_version = 1 /\ msg.auth_key = PeerKey
        \/ msg.type = "BlockTemplate" /\ CorrectlySignedBy(PeerKey, msg)
        \/ /\ msg.type = "CoinbasePrefixPostfix"
           /\ msg.coinbase_prefix_postfix.timestamp = 1
           /\ CorrectlySignedBy(PeerKey, msg) }

\* the provider numbers its templates one after the other
InTurn(h, msg) ==
    msg.type = "BlockTemplate"
    => msg.template.template_id = (IF h.cur_template.some THEN h.cur_template.v.template_id + 1 ELSE 1)

\* the receive loop has handle_message handle the next message of the
\* connection, whatever is queued elsewhere
JpReceive(p, msg) ==
    /\ ~panicked
    /\ jp[p].stream.some
    /\ \E r \in { jp_handle_message(p, jp[p], job_chan[p], ev_sent, msg) } :
           /\ jp' = [jp EXCEPT ![p] = IF r.res = "Err" THEN connection_closed(r.h) ELSE r.h]
           /\ job_chan' = [job_chan EXCEPT ![p] = r.chan]
           /\ ev_sent' = r.sent \cap Referenced([job_chan EXCEPT ![p] = r.chan], cur_work, work_chan)
           /\ panicked' = (r.res = "Panic")
           /\ last' = [op |-> "JpHandleMessage", host |-> p, type |-> msg.type,
                       res |-> r.res, log |-> r.log]
    /\ UNCHANGED <<pool, pool_chan, cur_work, work_chan,
                   up, m_args, m_ret>>

JobFloodInit ==
    /\ SysInit({1}, {}, { { JobProviderHost(1) } })
    /\ conn = NoMaintainers
    /\ wire = NoWire
    /\ sample = NoSample
    /\ m_args = NoCall
    /\ m_ret = Idle

JobFloodNext ==
    \/ \E p \in Providers : JpNewConnection(p) /\ UNCHANGED <<connvars, routervars>>
    \/ \E p \in Providers, msg \in FloodWorkMessages :
          JpReceive(p, msg) /\ InTurn(jp[p], msg) /\ UNCHANGED <<connvars, routervars>>
    \/ \E p \in Providers : JobUpdateTask(p) /\ UNCHANGED <<connvars, routervars>>

SpecJobFlood == JobFloodInit /\ [][JobFloodNext]_vars

-----------------------------------------------------------------------------
(* Two job providers and no pool: each provider's handler has its own channel
   and its own job update task, and the tasks share JobInfo *)

SeveralJobProviderHosts == {1, 2}

\* what a job provider that follows the protocol sends before any postfix
ProvidersWorkMessages ==
    { msg \in WorkMessages :
        \/ msg.type = "ProtocolVersion" /\ msg.selected_version = 1 /\ msg.auth_key = PeerKey
        \/ msg.type = "BlockTemplate" /\ CorrectlySignedBy(PeerKey, msg) }

ProvidersInit ==
    /\ SysInit(SeveralJobProviderHosts, {}, { { JobProviderHost(p) : p \in SeveralJobProviderHosts } })
    /\ conn = NoMaintainers
    /\ wire = NoWire
    /\ sample = NoSample
    /\ m_args = NoCall
    /\ m_ret = Idle

ProvidersNext ==
    \/ \E p \in Providers : JpNewConnection(p) /\ UNCHANGED <<connvars, routervars>>
    \/ \E p \in Providers : JpSendPump(p) /\ UNCHANGED <<connvars, routervars>>
    \/ \E p \in Providers, msg \in ProvidersWorkMessages : JpHandleMessage(p, msg) /\ UNCHANGED <<connvars, routervars>>
    \/ \E p \in Providers : JpConnectionClosed(p) /\ UNCHANGED <<connvars, routervars>>
    \/ \E p \in Providers : JobUpdateTask(p) /\ UNCHANGED <<connvars, routervars>>
    \/ ServerRecv /\ UNCHANGED <<connvars, routervars>>

SpecProviders == ProvidersInit /\ [][ProvidersNext]_vars

-----------------------------------------------------------------------------
(* Two job providers and two pools, all reachable: the providers send their
   version and their templates, the pools their version and their payout info *)

SourcesPoolMessages ==
    { msg \in PoolMessages :
        \/ msg.type = "ProtocolVersion" /\ msg.selected_version = 1 /\ msg.auth_key = PeerKey
        \/ msg.type = "PayoutInfo" /\ msg.payout_info.timestamp = 1 /\ CorrectlySignedBy(PeerKey, msg) }

SourcesInit ==
    /\ SysInit(SeveralJobProviderHosts, PoolServerHosts,
               { { JobProviderHost(p) : p \in SeveralJobProviderHosts }
                 \cup { PoolServerHost(q) : q \in PoolServerHosts } })
    /\ conn = NoMaintainers
    /\ wire = NoWire
    /\ sample = NoSample
    /\ m_args = NoCall
    /\ m_ret = Idle

SourcesNext ==
    \/ \E p \in Providers : JpNewConnection(p) /\ UNCHANGED <<connvars, routervars>>
    \/ \E p \in Providers, msg \in ProvidersWorkMessages : JpHandleMessage(p, msg) /\ UNCHANGED <<connvars, routervars>>
    \/ \E q \in Pools : PoolNewConnection(q) /\ UNCHANGED <<connvars, routervars>>
    \/ \E q \in Pools, msg \in SourcesPoolMessages : PoolHandleMessage(q, msg) /\ UNCHANGED <<connvars, routervars>>
    \/ \E q \in Pools : PoolConnectionClosed(q) /\ UNCHANGED <<connvars, routervars>>
    \/ \E p \in Providers : JobUpdateTask(p) /\ UNCHANGED <<connvars, routervars>>
    \/ \E q \in Pools : PoolUpdateTask(q) /\ UNCHANGED <<connvars, routervars>>
    \/ ServerRecv /\ UNCHANGED <<connvars, routervars>>

SpecSources == SourcesInit /\ [][SourcesNext]_vars

-----------------------------------------------------------------------------
(* The Eventual of one template: the job provider sends its first template and
   the transactions of it, the pool is connected and has given its difficulty,
   and the miners find solutions before and after the transactions arrive *)

\* how many closures the routers hand to get_and in a run
MaxCallbacks == 2

EventualWorkMessages ==
    { msg \in WorkMessages :
        /\ msg.type \in {"BlockTemplate", "TransactionData"}
        /\ CorrectlySignedBy(PeerKey, msg)
        /\ SignedPayload(msg).template_id = 1 }

EventualNext ==
    \/ \E p \in Providers : JpSendPump(p) /\ UNCHANGED <<connvars, routervars>>
    \/ \E p \in Providers, msg \in EventualWorkMessages : JpHandleMessage(p, msg) /\ UNCHANGED <<connvars, routervars>>
    \/ \E q \in Pools : PoolSendPump(q) /\ UNCHANGED <<connvars, routervars>>
    \/ \E p \in Providers : JobUpdateTask(p) /\ UNCHANGED <<connvars, routervars>>
    \/ ServerTake /\ UNCHANGED connvars
    \/ \E i \in 1..MaxServed, hash \in Hashes : RouterSolutionOf(i, hash, MaxCallbacks) /\ UNCHANGED connvars
    \/ \E e \in ev_sent : EventualResolve(e) /\ UNCHANGED connvars

SpecEventual == ReissueInit /\ [][EventualNext]_vars

-----------------------------------------------------------------------------
(* The same with the job reissued meanwhile: the server takes one WorkInfo
   after the other, and the miners find MaxCallbacks solutions *)

SupersededNext ==
    \/ \E p \in Providers : JpSendPump(p) /\ UNCHANGED <<connvars, routervars>>
    \/ \E p \in Providers, msg \in ReissueWorkMessages : JpHandleMessage(p, msg) /\ UNCHANGED <<connvars, routervars>>
    \/ \E q \in Pools : PoolSendPump(q) /\ UNCHANGED <<connvars, routervars>>
    \/ \E p \in Providers : JobUpdateTask(p) /\ UNCHANGED <<connvars, routervars>>
    \/ ServerTake /\ UNCHANGED connvars
    \/ \E i \in 1..MaxServed, hash \in Hashes : RouterSolutionOf(i, hash, MaxCallbacks) /\ UNCHANGED connvars
    \/ \E e \in ev_sent : EventualResolve(e) /\ UNCHANGED connvars

SpecSuperseded == ReissueInit /\ [][SupersededNext]_vars

Pending == [kind |-> "Pending"]

MergeInit ==
    /\ SysInit({}, {}, {{}})
    /\ conn = NoMaintainers
    /\ wire = NoWire
    /\ sample = NoSample
    /\ \E in \in MergeInputs, checks \in BOOLEAN :
          m_args = [job_info |-> in.job_info, payout_info |-> in.payout_info, checks |-> checks]
    /\ m_ret = Pending

\* one call of merge_job_pool, as the two update tasks of main make it
MergeCall ==
    /\ m_ret = Pending
    /\ m_ret' = merge_job_pool(S_op, m_args.job_info, Some(1), m_args.payout_info,
                               IF m_args.payout_info.some THEN Some(1) ELSE None,
                               m_args.checks)
    /\ UNCHANGED m_args
    /\ UNCHANGED sysvars

MergeNext == MergeCall

SpecMerge == MergeInit /\ [][MergeNext]_vars

-----------------------------------------------------------------------------
(* merge_job_pool on inputs whose lists and byte strings are as long as the
   decoders let them be *)

\* the largest count a u8 length field holds
U8Max == 255

\* the longest coinbase_prefix, coinbase_prefix_postfix and coinbase_postfix
MaxCoinbaseField == 100

\* the most merkle_rhss of a BlockTemplate
MaxMerkleRhss == 15

\* n times x
Repeat(x, n) == [i \in 1..n |-> x]

\* how many appended outputs the templates and payout infos carry
OutputCounts == {0, 1, 2, U8Max - 2, U8Max - 1, U8Max}

\* how long the three parts of the coinbase prefix are
FieldLengths == {0, 1, MaxCoinbaseField}

LimitTxOut == [value |-> U64(1000), script_pubkey |-> S_a]

LimitInputs ==
    { [job_info |->
         Some(Job(1, BlockTemplate(1, Target(0, 255), FiveBillion, Repeat(1, prefix_len),
                                   Repeat(LimitTxOut, outs)),
                  postfix)),
       payout_info |-> payout_info]
      : prefix_len \in FieldLengths, outs \in OutputCounts,
        postfix \in {None} \cup { Some(CoinbasePrefixPostfix(1, Repeat(7, n))) : n \in FieldLengths \ {0} },
        payout_info \in {None} \cup
          { Some(PoolInfo(PoolPayoutInfo(1, 250, Repeat(9, n), S_pool, Repeat(LimitTxOut, pouts)), None))
            : n \in {0, MaxCoinbaseField}, pouts \in {0, U8Max} } }

LimitsInit ==
    /\ SysInit({}, {}, {{}})
    /\ conn = NoMaintainers
    /\ wire = NoWire
    /\ sample = NoSample
    /\ \E in \in LimitInputs, checks \in BOOLEAN :
          m_args = [job_info |-> in.job_info, payout_info |-> in.payout_info, checks |-> checks]
    /\ m_ret = Pending

LimitsNext == MergeCall

SpecLimits == LimitsInit /\ [][LimitsNext]_vars

-----------------------------------------------------------------------------
(* The bytes of the two protocols: what bytes::BytesMut holds *)

RECURSIVE FromLe(_)
\* slice_to_le16, slice_to_le32, slice_to_le64
FromLe(v) == IF v = <<>> THEN 0 ELSE v[1] + 256 * FromLe(Tail(v))

\* slice_to_le64 of a value kept by its eight bytes
Le64(v) == [i \in 1..U64Len |-> v[i]]

\* &bytes[pos..pos + size]
Slice(bytes, pos, size) == SubSeq(bytes, pos + 1, pos + size)

\* bytes[pos]
ByteAt(bytes, pos) == bytes[pos + 1]

RECURSIVE Flatten(_)
\* put_slice of every item of a list
Flatten(list) == IF list = <<>> THEN <<>> ELSE Head(list) \o Flatten(Tail(list))

\* PublicKey::serialize: 33 bytes
PublicKeySerialize(key) == <<2>> \o Repeat(IF key = "K1" THEN 1 ELSE 2, 32)

\* PublicKey::from_slice
PublicKeyFromSlice(bytes) ==
    IF \E key \in Keys : bytes = PublicKeySerialize(key)
    THEN Some(CHOOSE key \in Keys : bytes = PublicKeySerialize(key))
    ELSE None

\* a Signature, known by its 64 compact bytes
Signature(compact) == [compact |-> compact]

\* Signature::serialize_compact
SerializeCompact(signature) == signature.compact

\* Signature::from_compact: r and s, 32 big-endian bytes each, have to be
\* below the group order, whose upper half is all ones
FromCompact(bytes) ==
    IF (\A i \in 1..16 : bytes[i] = 255) \/ (\A i \in 33..48 : bytes[i] = 255)
    THEN None ELSE Some(Signature(bytes))

\* a Transaction, known by its serialization
Transaction(raw) == [raw |-> raw]

\* network::serialize::serialize(tx)
SerializeTx(tx) == tx.raw

\* network::serialize::deserialize: a transaction has its version, its counts
\* and its lock time
DeserializeTx(bytes) ==
    IF Len(bytes) < 10 THEN None ELSE Some(Transaction(bytes))

\* the outputs of encode_unsigned: value, script length as u16, script
TxOutsEncode(outs) ==
    Flatten([i \in 1..Len(outs) |->
               outs[i].value \o LeBytes(Len(outs[i].script_pubkey), 2) \o outs[i].script_pubkey])

\* a BlockTemplate with the fields the merge only copies
FullBlockTemplate(t, version, prevblock, time, merkle_rhss, coinbase_version, sequence, locktime) ==
    [template_id |-> t.template_id,
     target |-> t.target,
     header_version |-> version,
     header_prevblock |-> prevblock,
     header_time |-> time,
     header_nbits |-> t.header_nbits,
     merkle_rhss |-> merkle_rhss,
     coinbase_value_remaining |-> t.coinbase_value_remaining,
     coinbase_version |-> coinbase_version,
     coinbase_prefix |-> t.coinbase_prefix,
     coinbase_input_sequence |-> sequence,
     appended_coinbase_outputs |-> t.appended_coinbase_outputs,
     coinbase_locktime |-> locktime]

\* BlockTemplate::encode_unsigned
BlockTemplateEncodeUnsigned(t) ==
    LeBytes(t.template_id, 8) \o t.target
    \o LeBytes(t.header_version, 4) \o t.header_prevblock
    \o LeBytes(t.header_time, 4) \o LeBytes(t.header_nbits, 4)
    \o LeBytes(Len(t.merkle_rhss), 1) \o Flatten(t.merkle_rhss)
    \o t.coinbase_value_remaining
    \o LeBytes(t.coinbase_version, 4)
    \o LeBytes(Len(t.coinbase_prefix), 1) \o t.coinbase_prefix
    \o LeBytes(t.coinbase_input_sequence, 4)
    \o LeBytes(Len(t.appended_coinbase_outputs), 1) \o TxOutsEncode(t.appended_coinbase_outputs)
    \o LeBytes(t.coinbase_locktime, 4)

\* CoinbasePrefixPostfix::encode_unsigned
CoinbasePrefixPostfixEncodeUnsigned(c) ==
    LeBytes(c.timestamp, 8)
    \o LeBytes(Len(c.coinbase_prefix_postfix), 1) \o c.coinbase_prefix_postfix

WinningNonce(template_id, version, time, nonce, tx) ==
    [template_id |-> template_id, header_version |-> version, header_time |-> time,
     header_nonce |-> nonce, coinbase_tx |-> tx]

\* WinningNonce::encode
WinningNonceEncode(n) ==
    LeBytes(n.template_id, 8) \o LeBytes(n.header_version, 4) \o LeBytes(n.header_time, 4)
    \o LeBytes(n.header_nonce, 4)
    \o LeBytes(Len(SerializeTx(n.coinbase_tx)), 4) \o SerializeTx(n.coinbase_tx)

\* TransactionData::encode_unsigned
TransactionDataEncodeUnsigned(d) ==
    LeBytes(d.template_id, 8) \o LeBytes(Len(d.transactions), 4)
    \o Flatten([i \in 1..Len(d.transactions) |->
                  LeBytes(Len(SerializeTx(d.transactions[i])), 4) \o SerializeTx(d.transactions[i])])

\* PoolPayoutInfo::encode_unsigned
PoolPayoutInfoEncodeUnsigned(info) ==
    LeBytes(info.timestamp, 8) \o LeBytes(info.self_payout_ratio_per_1000, 2)
    \o LeBytes(Len(info.coinbase_postfix), 1) \o info.coinbase_postfix
    \o LeBytes(Len(info.remaining_payout), 2) \o info.remaining_payout
    \o LeBytes(Len(info.appended_outputs), 1) \o TxOutsEncode(info.appended_outputs)

PoolShare(version, prevblock, time, nbits, nonce, merkle_rhss, tx) ==
    [header_version |-> version, header_prevblock |-> prevblock, header_time |-> time,
     header_nbits |-> nbits, header_nonce |-> nonce, merkle_rhss |-> merkle_rhss,
     coinbase_tx |-> tx]

SkipN(n) == [action |-> "SkipN", n |-> n]

IncludeTx == [action |-> "IncludeTx"]

NewTx(tx) == [action |-> "NewTx", tx |-> tx]

WeakBlock(version, prevblock, time, nbits, nonce, sketch_id, prev_sketch_id, txn) ==
    [header_version |-> version, header_prevblock |-> prevblock, header_time |-> time,
     header_nbits |-> nbits, header_nonce |-> nonce,
     sketch_id |-> sketch_id, prev_sketch_id |-> prev_sketch_id, txn |-> txn]

RECURSIVE WeakBlockActions(_, _)
\* the loop of WeakBlock::encode over txn: two bits an action, written when the
\* action has an operand or the byte is full; action_buff is a u8
WeakBlockActions(txn, action_buff) ==
    IF txn = <<>> THEN <<>>
    ELSE CASE Head(txn).action = "SkipN" ->
                <<((action_buff * 4) % 256) + 1, Head(txn).n>> \o WeakBlockActions(Tail(txn), 0)
           [] Head(txn).action = "IncludeTx" ->
                IF (((action_buff * 4) % 256) + 2) \div 64 # 0
                THEN <<((action_buff * 4) % 256) + 2>> \o WeakBlockActions(Tail(txn), 0)
                ELSE WeakBlockActions(Tail(txn), ((action_buff * 4) % 256) + 2)
           [] Head(txn).action = "NewTx" ->
                <<((action_buff * 4) % 256) + 3>>
                \o LeBytes(Len(SerializeTx(Head(txn).tx)), 4) \o SerializeTx(Head(txn).tx)
                \o WeakBlockActions(Tail(txn), 0)

\* WeakBlock::encode
WeakBlockEncode(w) ==
    LeBytes(w.header_version, 4) \o w.header_prevblock \o LeBytes(w.header_time, 4)
    \o LeBytes(w.header_nbits, 4) \o LeBytes(w.header_nonce, 4)
    \o LeBytes(w.sketch_id, 8) \o LeBytes(w.prev_sketch_id, 8)
    \o WeakBlockActions(w.txn, 0)

\* bytes a peer writes that no encoder of the proxy writes: a type byte and
\* what follows it
RawFrame(tag, body) == [type |-> "Raw", tag |-> tag, body |-> body]

\* WorkMsgFramer::encode
WorkMsgFramerEncode(msg) ==
    CASE msg.type = "ProtocolSupport" ->
            <<1>> \o LeBytes(msg.max_version, 2) \o LeBytes(msg.min_version, 2) \o LeBytes(msg.flags, 2)
      [] msg.type = "ProtocolVersion" ->
            <<2>> \o LeBytes(msg.selected_version, 2) \o PublicKeySerialize(msg.auth_key)
      [] msg.type = "BlockTemplate" ->
            <<3>> \o SerializeCompact(msg.signature) \o BlockTemplateEncodeUnsigned(msg.template)
      [] msg.type = "WinningNonce" -> <<4>> \o WinningNonceEncode(msg.nonces)
      [] msg.type = "TransactionDataRequest" -> <<5>> \o LeBytes(msg.template_id, 8)
      [] msg.type = "TransactionData" ->
            <<6>> \o SerializeCompact(msg.signature) \o TransactionDataEncodeUnsigned(msg.data)
      [] msg.type = "CoinbasePrefixPostfix" ->
            <<7>> \o SerializeCompact(msg.signature)
            \o CoinbasePrefixPostfixEncodeUnsigned(msg.coinbase_prefix_postfix)
      [] msg.type = "Raw" -> <<msg.tag>> \o msg.body

\* PoolMsgFramer::encode
PoolMsgFramerEncode(msg) ==
    CASE msg.type = "ProtocolSupport" ->
            <<1>> \o LeBytes(msg.max_version, 2) \o LeBytes(msg.min_version, 2) \o LeBytes(msg.flags, 2)
      [] msg.type = "ProtocolVersion" ->
            <<2>> \o LeBytes(msg.selected_version, 2) \o PublicKeySerialize(msg.auth_key)
      [] msg.type = "PayoutInfo" ->
            <<3>> \o SerializeCompact(msg.signature) \o PoolPayoutInfoEncodeUnsigned(msg.payout_info)
      [] msg.type = "ShareDifficulty" ->
            <<4>> \o msg.difficulty.share_target \o msg.difficulty.weak_block_target
      [] msg.type = "Share" ->
            <<5>> \o LeBytes(msg.share.header_version, 4) \o msg.share.header_prevblock
            \o LeBytes(msg.share.header_time, 4) \o LeBytes(msg.share.header_nbits, 4)
            \o LeBytes(msg.share.header_nonce, 4)
            \o LeBytes(Len(msg.share.merkle_rhss), 1) \o Flatten(msg.share.merkle_rhss)
            \o LeBytes(Len(SerializeTx(msg.share.coinbase_tx)), 4) \o SerializeTx(msg.share.coinbase_tx)
      [] msg.type = "WeakBlock" -> <<6>> \o WeakBlockEncode(msg.sketch)
      [] msg.type = "WeakBlockStateReset" -> <<7>>
      [] msg.type = "Raw" -> <<msg.tag>> \o msg.body

\* Ok(None): the buffer does not yet hold a message
NeedMore == [res |-> "None"]

\* Err(io::ErrorKind::InvalidData)
Invalid == [res |-> "Err"]

\* advance_bytes!() and Ok(Some(msg)): read_pos bytes leave the buffer
Complete(msg, read_pos) == [res |-> "Some", msg |-> msg, read_pos |-> read_pos]

\* what a loop of get_slice! has read so far
ReadOk(items, pos) == [res |-> "Ok", items |-> items, pos |-> pos]

\* a decoder of tag 1 that returns once max_version is there
DecodeProtocolSupportPartial(bytes) ==
    IF Len(bytes) < 1 + 2 THEN NeedMore
    ELSE Complete([type |-> "ProtocolSupport",
                   max_version |-> FromLe(Slice(bytes, 1, 2)),
                   min_version |-> 0,
                   flags |-> 0], 3)

\* tag 1 of both framers: three get_slice!(2)
DecodeProtocolSupport(bytes) ==
    IF Len(bytes) < 1 + 2 \/ Len(bytes) < 3 + 2 \/ Len(bytes) < 5 + 2 THEN NeedMore
    ELSE Complete([type |-> "ProtocolSupport",
                   max_version |-> FromLe(Slice(bytes, 1, 2)),
                   min_version |-> FromLe(Slice(bytes, 3, 2)),
                   flags |-> FromLe(Slice(bytes, 5, 2))], 7)

\* tag 2 of both framers
DecodeProtocolVersion(bytes) ==
    IF Len(bytes) < 1 + 2 \/ Len(bytes) < 3 + 33 THEN NeedMore
    ELSE IF ~PublicKeyFromSlice(Slice(bytes, 3, 33)).some THEN Invalid
    ELSE Complete([type |-> "ProtocolVersion",
                   selected_version |-> FromLe(Slice(bytes, 1, 2)),
                   auth_key |-> PublicKeyFromSlice(Slice(bytes, 3, 33)).v], 36)

\* a merkle_rhss loop that fills the list from its end
ReadMerkleRhssReversed(bytes, pos, count) ==
    IF Len(bytes) < pos + 32 * count THEN NeedMore
    ELSE ReadOk([i \in 1..count |-> Slice(bytes, pos + 32 * (count - i), 32)], pos + 32 * count)

\* the merkle_rhss loop: count times get_slice!(32)
ReadMerkleRhss(bytes, pos, count) ==
    IF Len(bytes) < pos + 32 * count THEN NeedMore
    ELSE ReadOk([i \in 1..count |-> Slice(bytes, pos + 32 * (i - 1), 32)], pos + 32 * count)

RECURSIVE ReadOutputs(_, _, _)
\* the outputs loop: value, script_len, script
ReadOutputs(bytes, pos, count) ==
    IF count = 0 THEN ReadOk(<<>>, pos)
    ELSE IF Len(bytes) < pos + 8 \/ Len(bytes) < pos + 8 + 2 THEN NeedMore
    ELSE IF Len(bytes) < pos + 10 + FromLe(Slice(bytes, pos + 8, 2)) THEN NeedMore
    ELSE LET script_len == FromLe(Slice(bytes, pos + 8, 2))
             rest == ReadOutputs(bytes, pos + 10 + script_len, count - 1)
         IN IF rest.res # "Ok" THEN rest
            ELSE ReadOk(<<[value |-> Le64(Slice(bytes, pos, 8)),
                           script_pubkey |-> Slice(bytes, pos + 10, script_len)]>> \o rest.items,
                        rest.pos)

RECURSIVE ReadTransactions(_, _, _)
\* the transactions loop: tx_len, then deserialize
ReadTransactions(bytes, pos, count) ==
    IF count = 0 THEN ReadOk(<<>>, pos)
    ELSE IF Len(bytes) < pos + 4 THEN NeedMore
    ELSE IF Len(bytes) < pos + 4 + FromLe(Slice(bytes, pos, 4)) THEN NeedMore
    ELSE IF ~DeserializeTx(Slice(bytes, pos + 4, FromLe(Slice(bytes, pos, 4)))).some THEN Invalid
    ELSE LET tx_len == FromLe(Slice(bytes, pos, 4))
             rest == ReadTransactions(bytes, pos + 4 + tx_len, count - 1)
         IN IF rest.res # "Ok" THEN rest
            ELSE ReadOk(<<DeserializeTx(Slice(bytes, pos + 4, tx_len)).v>> \o rest.items, rest.pos)

\* tag 3 of WorkMsgFramer from coinbase_input_sequence on; pos is read_pos
\* after the coinbase_prefix
BlockTemplateTail(bytes, pos, merkle_rhss, prefix_len) ==
    IF Len(bytes) < pos + 4 \/ Len(bytes) < pos + 4 + 1 THEN NeedMore
    ELSE LET outs == ReadOutputs(bytes, pos + 5, ByteAt(bytes, pos + 4))
         IN IF outs.res # "Ok" THEN outs
            ELSE IF Len(bytes) < outs.pos + 4 THEN NeedMore
            ELSE Complete(
                   [type |-> "BlockTemplate",
                    signature |-> FromCompact(Slice(bytes, 1, 64)).v,
                    template |->
                      [template_id |-> FromLe(Slice(bytes, 65, 8)),
                       target |-> Slice(bytes, 73, 32),
                       header_version |-> FromLe(Slice(bytes, 105, 4)),
                       header_prevblock |-> Slice(bytes, 109, 32),
                       header_time |-> FromLe(Slice(bytes, 141, 4)),
                       header_nbits |-> FromLe(Slice(bytes, 145, 4)),
                       merkle_rhss |-> merkle_rhss,
                       coinbase_value_remaining |->
                         Le64(Slice(bytes, pos - prefix_len - 13, 8)),
                       coinbase_version |-> FromLe(Slice(bytes, pos - prefix_len - 5, 4)),
                       coinbase_prefix |-> Slice(bytes, pos - prefix_len, prefix_len),
                       coinbase_input_sequence |-> FromLe(Slice(bytes, pos, 4)),
                       appended_coinbase_outputs |-> outs.items,
                       coinbase_locktime |-> FromLe(Slice(bytes, outs.pos, 4))]],
                   outs.pos + 4)

\* tag 3 of WorkMsgFramer
DecodeBlockTemplate(bytes) ==
    IF Len(bytes) < 64 + 8 + 32 + 4 + 32 + 4 + 4 + 1 + 8 + 4 + 1 + 4 + 1 + 4 THEN NeedMore
    ELSE IF ~FromCompact(Slice(bytes, 1, 64)).some THEN Invalid
    ELSE IF ByteAt(bytes, 149) > MaxMerkleRhss THEN Invalid
    ELSE LET merkle == ReadMerkleRhss(bytes, 150, ByteAt(bytes, 149))
         IN IF merkle.res # "Ok" THEN NeedMore
            ELSE IF Len(bytes) < merkle.pos + 8 \/ Len(bytes) < merkle.pos + 12
                    \/ Len(bytes) < merkle.pos + 13 THEN NeedMore
            ELSE IF ByteAt(bytes, merkle.pos + 12) > MaxCoinbaseField THEN Invalid
            ELSE IF Len(bytes) < merkle.pos + 13 + ByteAt(bytes, merkle.pos + 12) THEN NeedMore
            ELSE BlockTemplateTail(bytes, merkle.pos + 13 + ByteAt(bytes, merkle.pos + 12),
                                   merkle.items, ByteAt(bytes, merkle.pos + 12))

\* tag 6 of WorkMsgFramer
DecodeTransactionData(bytes) ==
    IF Len(bytes) < 1 + 64 THEN NeedMore
    ELSE IF ~FromCompact(Slice(bytes, 1, 64)).some THEN Invalid
    ELSE IF Len(bytes) < 65 + 8 \/ Len(bytes) < 73 + 4 THEN NeedMore
    ELSE IF Len(bytes) < 64 + 8 + 4 + FromLe(Slice(bytes, 73, 4)) * 4 THEN NeedMore
    ELSE LET txn == ReadTransactions(bytes, 77, FromLe(Slice(bytes, 73, 4)))
         IN IF txn.res # "Ok" THEN txn
            ELSE Complete([type |-> "TransactionData",
                           signature |-> FromCompact(Slice(bytes, 1, 64)).v,
                           data |-> [template_id |-> FromLe(Slice(bytes, 65, 8)),
                                     transactions |-> txn.items]],
                          txn.pos)

\* a decoder of tag 7 without the limit on the length byte
DecodeCoinbasePrefixPostfixAnyLength(bytes) ==
    IF Len(bytes) < 1 + 64 THEN NeedMore
    ELSE IF ~FromCompact(Slice(bytes, 1, 64)).some THEN Invalid
    ELSE IF Len(bytes) < 65 + 8 \/ Len(bytes) < 73 + 1 THEN NeedMore
    ELSE IF Len(bytes) < 74 + ByteAt(bytes, 73) THEN NeedMore
    ELSE Complete([type |-> "CoinbasePrefixPostfix",
                   signature |-> FromCompact(Slice(bytes, 1, 64)).v,
                   coinbase_prefix_postfix |->
                     [timestamp |-> FromLe(Slice(bytes, 65, 8)),
                      coinbase_prefix_postfix |-> Slice(bytes, 74, ByteAt(bytes, 73))]],
                  74 + ByteAt(bytes, 73))

\* tag 7 of WorkMsgFramer
DecodeCoinbasePrefixPostfix(bytes) ==
    IF Len(bytes) < 1 + 64 THEN NeedMore
    ELSE IF ~FromCompact(Slice(bytes, 1, 64)).some THEN Invalid
    ELSE IF Len(bytes) < 65 + 8 \/ Len(bytes) < 73 + 1 THEN NeedMore
    ELSE IF ByteAt(bytes, 73) > MaxCoinbaseField THEN Invalid
    ELSE IF Len(bytes) < 74 + ByteAt(bytes, 73) THEN NeedMore
    ELSE Complete([type |-> "CoinbasePrefixPostfix",
                   signature |-> FromCompact(Slice(bytes, 1, 64)).v,
                   coinbase_prefix_postfix |->
                     [timestamp |-> FromLe(Slice(bytes, 65, 8)),
                      coinbase_prefix_postfix |-> Slice(bytes, 74, ByteAt(bytes, 73))]],
                  74 + ByteAt(bytes, 73))

\* WorkMsgFramer::decode
WorkMsgFramerDecode(bytes) ==
    IF Len(bytes) = 0 THEN NeedMore
    ELSE CASE bytes[1] = 1 -> DecodeProtocolSupport(bytes)
           [] bytes[1] = 2 -> DecodeProtocolVersion(bytes)
           [] bytes[1] = 3 -> DecodeBlockTemplate(bytes)
           [] bytes[1] = 4 -> NeedMore
           [] bytes[1] = 5 -> NeedMore
           [] bytes[1] = 6 -> DecodeTransactionData(bytes)
           [] bytes[1] = 7 -> DecodeCoinbasePrefixPostfix(bytes)
           [] OTHER -> Invalid

\* tag 3 of PoolMsgFramer from the remaining_payout script on; pos is read_pos
\* after the coinbase_postfix
PayoutInfoTail(bytes, pos, postfix_len) ==
    IF Len(bytes) < pos + 2 THEN NeedMore
    ELSE IF Len(bytes) < pos + 2 + FromLe(Slice(bytes, pos, 2)) THEN NeedMore
    ELSE IF Len(bytes) < pos + 2 + FromLe(Slice(bytes, pos, 2)) + 1 THEN NeedMore
    ELSE LET script_len == FromLe(Slice(bytes, pos, 2))
             outs == ReadOutputs(bytes, pos + 2 + script_len + 1,
                                 ByteAt(bytes, pos + 2 + script_len))
         IN IF outs.res # "Ok" THEN outs
            ELSE Complete(
                   [type |-> "PayoutInfo",
                    signature |-> FromCompact(Slice(bytes, 1, 64)).v,
                    payout_info |->
                      [timestamp |-> FromLe(Slice(bytes, 65, 8)),
                       self_payout_ratio_per_1000 |-> FromLe(Slice(bytes, 73, 2)),
                       coinbase_postfix |-> Slice(bytes, 76, postfix_len),
                       remaining_payout |-> Slice(bytes, pos + 2, script_len),
                       appended_outputs |-> outs.items]],
                   outs.pos)

\* tag 3 of PoolMsgFramer
DecodePayoutInfo(bytes) ==
    IF Len(bytes) < 1 + 64 THEN NeedMore
    ELSE IF ~FromCompact(Slice(bytes, 1, 64)).some THEN Invalid
    ELSE IF Len(bytes) < 65 + 8 \/ Len(bytes) < 73 + 2 \/ Len(bytes) < 75 + 1 THEN NeedMore
    ELSE IF Len(bytes) < 76 + ByteAt(bytes, 75) THEN NeedMore
    ELSE PayoutInfoTail(bytes, 76 + ByteAt(bytes, 75), ByteAt(bytes, 75))

\* tag 4 of PoolMsgFramer
DecodeShareDifficulty(bytes) ==
    IF Len(bytes) < 1 + 32 \/ Len(bytes) < 33 + 32 THEN NeedMore
    ELSE Complete([type |-> "ShareDifficulty",
                   difficulty |-> [share_target |-> Slice(bytes, 1, 32),
                                   weak_block_target |-> Slice(bytes, 33, 32)]], 65)

\* PoolMsgFramer::decode
PoolMsgFramerDecode(bytes) ==
    IF Len(bytes) = 0 THEN NeedMore
    ELSE CASE bytes[1] = 1 -> DecodeProtocolSupport(bytes)
           [] bytes[1] = 2 -> DecodeProtocolVersion(bytes)
           [] bytes[1] = 3 -> DecodePayoutInfo(bytes)
           [] bytes[1] = 4 -> DecodeShareDifficulty(bytes)
           [] bytes[1] = 5 -> NeedMore
           [] bytes[1] = 6 -> NeedMore
           [] bytes[1] = 7 -> Complete([type |-> "WeakBlockStateReset"], 1)
           [] OTHER -> Invalid

-----------------------------------------------------------------------------
(* The framers alone: a peer writes messages, the bytes arrive in pieces, and
   Framed calls decode on what has arrived *)

CodecSignature == Signature(<<48, 69>> \o Repeat(5, 62))

\* a compact signature whose r is above the group order
CodecBadSignature == Repeat(255, 64)

CodecTx(n) == Transaction(<<n, 0, 0, 0>> \o <<0, 0>> \o <<0, 0, 0, 0>>)

CodecOutputs(n) ==
    SubSeq(<<[value |-> U64(1000000000), script_pubkey |-> S_a],
             [value |-> FiveBillion, script_pubkey |-> <<>>]>>, 1, n)

\* a template with merkle_count merkle_rhss, prefix_len bytes of coinbase_prefix
\* and out_count appended outputs
CodecTemplate(id, merkle_count, prefix_len, out_count) ==
    FullBlockTemplate(
        BlockTemplate(id, Target(0, 255), FiveBillion, Repeat(9, prefix_len), CodecOutputs(out_count)),
        536870912, Repeat(17, TargetLen), 1500000000,
        [i \in 1..merkle_count |-> Repeat(i, 32)], 2, 65535, 500000)

CodecSupport == [type |-> "ProtocolSupport", max_version |-> 258, min_version |-> 1, flags |-> 512]

\* the WorkMessages within the limits of the protocol
CodecWorkMessages ==
    { CodecSupport,
      [type |-> "ProtocolVersion", selected_version |-> 1, auth_key |-> PeerKey],
      [type |-> "WinningNonce", nonces |-> WinningNonce(258, 536870912, 1500000000, 70000, CodecTx(1))],
      [type |-> "TransactionDataRequest", template_id |-> 258] }
    \cup { [type |-> "BlockTemplate", signature |-> CodecSignature, template |-> t]
           : t \in { CodecTemplate(1, 0, 0, 0), CodecTemplate(258, 2, 2, 2),
                     CodecTemplate(2, MaxMerkleRhss, MaxCoinbaseField, 1) } }
    \cup { [type |-> "TransactionData", signature |-> CodecSignature,
            data |-> [template_id |-> 258, transactions |-> txn]]
           : txn \in { <<>>, <<CodecTx(1), CodecTx(2)>> } }
    \cup { [type |-> "CoinbasePrefixPostfix", signature |-> CodecSignature,
            coinbase_prefix_postfix |-> CoinbasePrefixPostfix(ts, Repeat(7, len))]
           : ts \in {258}, len \in {0, 1, MaxCoinbaseField} }

\* what a WorkMsgFramer has to refuse
CodecWorkRefused ==
    { [type |-> "BlockTemplate", signature |-> CodecSignature, template |-> t]
      : t \in { CodecTemplate(1, MaxMerkleRhss + 1, 0, 0), CodecTemplate(1, 0, MaxCoinbaseField + 1, 0) } }
    \cup { [type |-> "CoinbasePrefixPostfix", signature |-> CodecSignature,
            coinbase_prefix_postfix |-> CoinbasePrefixPostfix(1, Repeat(7, MaxCoinbaseField + 1))] }
    \cup { RawFrame(tag, <<1, 2, 3>>) : tag \in {0, 8, 255} }

MaxPayoutRatio == 1000

\* the PoolMessages within the limits of the protocol
CodecPoolMessages ==
    { CodecSupport,
      [type |-> "ProtocolVersion", selected_version |-> 1, auth_key |-> PeerKey],
      [type |-> "ShareDifficulty", difficulty |-> PoolDifficulty(Target(0, 127), Target(1, 127))],
      [type |-> "Share",
       share |-> PoolShare(536870912, Repeat(17, TargetLen), 1500000000, 486604799, 70000,
                           <<Repeat(1, 32)>>, CodecTx(1))],
      [type |-> "WeakBlockStateReset"] }
    \cup { [type |-> "PayoutInfo", signature |-> CodecSignature, payout_info |-> i]
           : i \in { PoolPayoutInfo(1, 250, <<>>, S_pool, <<>>),
                     PoolPayoutInfo(258, MaxPayoutRatio, Repeat(9, MaxCoinbaseField), S_pool,
                                    CodecOutputs(2)) } }
    \cup { [type |-> "WeakBlock",
            sketch |-> WeakBlock(536870912, Repeat(17, TargetLen), 1500000000, 486604799, 70000,
                                 258, 1, txn)]
           : txn \in { <<>>, <<SkipN(3), NewTx(CodecTx(1))>> } }

\* what a PoolMsgFramer has to refuse
CodecPoolRefused ==
    { [type |-> "PayoutInfo", signature |-> CodecSignature, payout_info |-> i]
      : i \in { PoolPayoutInfo(1, 250, Repeat(9, MaxCoinbaseField + 1), S_pool, <<>>),
                PoolPayoutInfo(1, MaxPayoutRatio + 1, <<9>>, S_pool, <<>>) } }
    \cup { RawFrame(tag, <<1, 2, 3>>) : tag \in {0, 8} }

\* the framer's encode
FramerEncode(framer, msg) ==
    IF framer = "work" THEN WorkMsgFramerEncode(msg) ELSE PoolMsgFramerEncode(msg)

\* the framer's decode
FramerDecode(framer, bytes) ==
    IF framer = "work" THEN WorkMsgFramerDecode(bytes) ELSE PoolMsgFramerDecode(bytes)

\* what the other variables of a Framed stream's steps keep
framedrest == <<jp, job_chan, pool, pool_chan, cur_work, work_chan, ev_sent,
                up, panicked, m_args, m_ret, conn, sample, routervars>>

\* the peer writes msgs, one after the other, into an idle connection
PeerSend(framer, msgs) ==
    /\ wire.sent = <<>>
    /\ wire' = [framer |-> framer, sent |-> msgs,
                pending |-> Flatten([i \in 1..Len(msgs) |-> FramerEncode(framer, msgs[i])]),
                buf |-> <<>>]
    /\ last' = [op |-> "PeerSend"]
    /\ UNCHANGED framedrest

\* a read of the socket appends the next n bytes to the buffer
Arrive(n) ==
    /\ n \in 1..Len(wire.pending)
    /\ wire' = [wire EXCEPT !.pending = SubSeq(@, n + 1, Len(@)),
                            !.buf = @ \o SubSeq(wire.pending, 1, n)]
    /\ last' = [op |-> "Arrive"]
    /\ UNCHANGED framedrest

\* Framed calls decode: a message leaves the buffer, or the buffer stays for
\* more bytes, or the stream ends with the error and the connection with it
Decode ==
    /\ wire.sent # <<>>
    /\ \E ret \in { FramerDecode(wire.framer, wire.buf) } :
          /\ wire' = CASE ret.res = "Some" ->
                            [wire EXCEPT !.buf = SubSeq(@, ret.read_pos + 1, Len(@)),
                                         !.sent = Tail(@)]
                       [] ret.res = "None" -> wire
                       [] ret.res = "Err" -> NoWire
          /\ last' = [op |-> "Decode", framer |-> wire.framer, buf |-> wire.buf, ret |-> ret]
    /\ UNCHANGED framedrest

\* the peer closes the connection
PeerCloses ==
    /\ wire.sent # <<>>
    /\ wire' = NoWire
    /\ last' = [op |-> "PeerCloses"]
    /\ UNCHANGED framedrest

\* what follows a message on the wire, if anything does
CodecFollowing == { <<>>, <<CodecSupport>> }

CodecInit ==
    /\ SysInit({}, {}, {{}})
    /\ conn = NoMaintainers
    /\ wire = NoWire
    /\ sample = NoSample
    /\ m_args = NoCall
    /\ m_ret = Idle

CodecNext ==
    \/ \E msg \in CodecWorkMessages \cup CodecWorkRefused, following \in CodecFollowing :
          PeerSend("work", <<msg>> \o following)
    \/ \E msg \in CodecPoolMessages \cup CodecPoolRefused, following \in CodecFollowing :
          PeerSend("pool", <<msg>> \o following)
    \/ \E n \in {1, Len(wire.pending)} : Arrive(n)
    \/ Decode
    \/ PeerCloses

SpecCodec == CodecInit /\ [][CodecNext]_vars

-----------------------------------------------------------------------------
(* A connection from the bytes up: what the peer wrote arrives in pieces, the
   receive loop polls the Framed stream, and each message decode returns goes
   to handle_message *)

\* the variants handle_message of JobProviderHandler answers with Err
WorkNotAccepted ==
    { CodecSupport,
      [type |-> "WinningNonce", nonces |-> WinningNonce(258, 536870912, 1500000000, 70000, CodecTx(1))],
      [type |-> "TransactionDataRequest", template_id |-> 258] }

\* the variants handle_message of PoolHandler answers with Err
PoolNotAccepted ==
    { CodecSupport,
      [type |-> "Share",
       share |-> PoolShare(536870912, Repeat(17, TargetLen), 1500000000, 486604799, 70000,
                           <<Repeat(1, 32)>>, CodecTx(1))],
      [type |-> "WeakBlock",
       sketch |-> WeakBlock(536870912, Repeat(17, TargetLen), 1500000000, 486604799, 70000,
                            258, 1, <<>>)] }

RecvVersion == [type |-> "ProtocolVersion", selected_version |-> 1, auth_key |-> PeerKey]

\* what the job provider writes in these runs
RecvWorkMessages == WorkNotAccepted \cup { RecvVersion, RawFrame(8, <<1, 2, 3>>) }

\* what the pool writes in these runs
RecvPoolMessages ==
    PoolNotAccepted
    \cup { RecvVersion,
           [type |-> "ShareDifficulty", difficulty |-> PoolDifficulty(Target(0, 127), Target(1, 127))],
           [type |-> "WeakBlockStateReset"],
           RawFrame(8, <<1, 2, 3>>) }

\* what follows a message on the wire, if anything does
RecvFollowing == { <<>>, <<RecvVersion>> }

\* what a step of a connection keeps of the maintainers, the server and the routers
recvrest == <<conn, sample, routervars>>

\* the job provider writes msgs into its connection
JpPeerSend(p, msgs) ==
    /\ ~panicked
    /\ jp[p].stream.some
    /\ wire.sent = <<>>
    /\ wire' = [framer |-> "work", sent |-> msgs,
                pending |-> Flatten([i \in 1..Len(msgs) |-> WorkMsgFramerEncode(msgs[i])]),
                buf |-> <<>>]
    /\ last' = [op |-> "JpPeerSend", host |-> p]
    /\ UNCHANGED <<jp, job_chan, pool, pool_chan, cur_work, work_chan, ev_sent,
                   up, panicked, m_args, m_ret, recvrest>>

\* the pool writes msgs into its connection
PoolPeerSend(q, msgs) ==
    /\ ~panicked
    /\ pool[q].stream.some
    /\ wire.sent = <<>>
    /\ wire' = [framer |-> "pool", sent |-> msgs,
                pending |-> Flatten([i \in 1..Len(msgs) |-> PoolMsgFramerEncode(msgs[i])]),
                buf |-> <<>>]
    /\ last' = [op |-> "PoolPeerSend", host |-> q]
    /\ UNCHANGED <<jp, job_chan, pool, pool_chan, cur_work, work_chan, ev_sent,
                   up, panicked, m_args, m_ret, recvrest>>

\* the buffer after a poll: the message left it, or the loop ended and the
\* stream was dropped with it
AfterMessage(ret, res) ==
    IF res = "Err" THEN NoWire
    ELSE [wire EXCEPT !.buf = SubSeq(@, ret.read_pos + 1, Len(@)), !.sent = Tail(@)]

\* the receive loop of the job provider's connection is polled: decode runs on
\* the buffer; a message goes to handle_message, Ok(None) leaves the loop
\* waiting for bytes, and an Err of either ends the loop with connection_closed
JpPoll(p) ==
    /\ ~panicked
    /\ jp[p].stream.some
    /\ wire.framer = "work"
    /\ wire.sent # <<>>
    /\ \E ret \in { WorkMsgFramerDecode(wire.buf) } :
          \/ /\ ret.res = "Some"
             /\ JpHandleMessage(p, ret.msg)
             /\ wire' = AfterMessage(ret, last'.res)
          \/ /\ ret.res = "None"
             /\ last' = [op |-> "Decode", framer |-> "work", buf |-> wire.buf, ret |-> ret]
             /\ UNCHANGED <<jp, job_chan, pool, pool_chan, cur_work, work_chan, ev_sent,
                            up, panicked, m_args, m_ret, wire>>
          \/ /\ ret.res = "Err"
             /\ jp' = [jp EXCEPT ![p] = connection_closed(jp[p])]
             /\ wire' = NoWire
             /\ last' = [op |-> "Decode", framer |-> "work", buf |-> wire.buf, ret |-> ret]
             /\ UNCHANGED <<job_chan, pool, pool_chan, cur_work, work_chan, ev_sent,
                            up, panicked, m_args, m_ret>>
    /\ UNCHANGED recvrest

\* the receive loop of the pool's connection is polled
PoolPoll(q) ==
    /\ ~panicked
    /\ pool[q].stream.some
    /\ wire.framer = "pool"
    /\ wire.sent # <<>>
    /\ \E ret \in { PoolMsgFramerDecode(wire.buf) } :
          \/ /\ ret.res = "Some"
             /\ PoolReceive(q, ret.msg)
             /\ wire' = AfterMessage(ret, last'.res)
          \/ /\ ret.res = "None"
             /\ last' = [op |-> "Decode", framer |-> "pool", buf |-> wire.buf, ret |-> ret]
             /\ UNCHANGED <<jp, job_chan, pool, pool_chan, cur_work, work_chan, ev_sent,
                            up, panicked, m_args, m_ret, wire>>
          \/ /\ ret.res = "Err"
             /\ pool' = [pool EXCEPT ![q] = connection_closed(pool[q])]
             /\ wire' = NoWire
             /\ last' = [op |-> "Decode", framer |-> "pool", buf |-> wire.buf, ret |-> ret]
             /\ UNCHANGED <<jp, job_chan, pool_chan, cur_work, work_chan, ev_sent,
                            up, panicked, m_args, m_ret>>
    /\ UNCHANGED recvrest

\* the job provider closes the connection: the stream ends, connection_closed
JpPeerCloses(p) ==
    /\ wire.framer = "work"
    /\ wire.sent # <<>>
    /\ JpConnectionClosed(p)
    /\ wire' = NoWire
    /\ UNCHANGED recvrest

\* the pool closes the connection
PoolPeerCloses(q) ==
    /\ wire.framer = "pool"
    /\ wire.sent # <<>>
    /\ PoolConnectionClosed(q)
    /\ wire' = NoWire
    /\ UNCHANGED recvrest

RecvInit ==
    /\ SysInit({1}, {0}, { {JobProviderHost(1), PoolServerHost(0)} })
    /\ conn = NoMaintainers
    /\ wire = NoWire
    /\ sample = NoSample
    /\ m_args = NoCall
    /\ m_ret = Idle

RecvNext ==
    \/ \E p \in Providers : JpNewConnection(p) /\ UNCHANGED <<connvars, routervars>>
    \/ \E p \in Providers : JpSendPump(p) /\ UNCHANGED <<connvars, routervars>>
    \/ \E q \in Pools : PoolNewConnection(q) /\ UNCHANGED <<connvars, routervars>>
    \/ \E p \in Providers, msg \in RecvWorkMessages, following \in RecvFollowing :
          JpPeerSend(p, <<msg>> \o following)
    \/ \E q \in Pools, msg \in RecvPoolMessages, following \in RecvFollowing :
          PoolPeerSend(q, <<msg>> \o following)
    \/ \E n \in {1, Len(wire.pending)} : Arrive(n)
    \/ \E p \in Providers : JpPoll(p)
    \/ \E q \in Pools : PoolPoll(q)
    \/ \E p \in Providers : JpPeerCloses(p)
    \/ \E q \in Pools : PoolPeerCloses(q)

SpecRecv == RecvInit /\ [][RecvNext]_vars

-----------------------------------------------------------------------------
(* The sample pool: a listener that gives each connection a client id, a
   bounded send sink with its pump, and a receive loop with two flags *)

\* how many connections the listener accepts in a run
MaxConnections == 2

\* how many messages the clients send in a run, over all connections
MaxReceived == 5

\* mpsc::channel(5) between the receive loop and the send pump
SendSinkCapacity == 5

\* SHARE_TARGET, difficulty 65536
SHARE_TARGET == [i \in 1..TargetLen |-> IF i \in {25, 26} THEN 255 ELSE 0]

\* --server_id, its bytes
ServerIds == { None, Some(<<83>>) }

\* the user ids of these runs: "1A", which stands for an address, "x", which
\* is no address, and the byte 0xff, which no UTF-8 string holds
UserIds == { <<49, 65>>, <<120>>, <<255>> }

\* String::from_utf8 on these user ids, all of them ASCII but for 0xff
FromUtf8(bytes) == IF \A i \in 1..Len(bytes) : bytes[i] < 128 THEN Some(bytes) ELSE None

\* Address::from_str on these strings
AddressFromStr(string) == IF string = <<49, 65>> THEN Some(string) ELSE None

\* client_coinbase_postfix: le64_to_array(client_id), then the server id
ClientCoinbasePostfix(client_id, server_id) ==
    LeBytes(client_id, U64Len) \o (IF server_id.some THEN server_id.v ELSE <<>>)

\* what a client of the sample pool sends
SampleMessages ==
    { [type |-> "ProtocolSupport", max_version |-> r[1], min_version |-> r[2], flags |-> 0]
      : r \in { <<1, 1>>, <<2, 1>>, <<2, 2>>, <<0, 0>> } }
    \cup { [type |-> "ProtocolSupport", max_version |-> 1, min_version |-> 1, flags |-> 1] }
    \cup { [type |-> "PayoutInfoRequest", user_id |-> u] : u \in UserIds }
    \cup { [type |-> t] : t \in {"ProtocolVersion", "PayoutInfo", "ShareDifficulty", "Share",
                                 "WeakBlock", "WeakBlockStateReset", "NewPoolServer"} }

\* the state of one accepted connection: the id and the flags its receive loop
\* holds, the send sink's queue and whether the pump still holds its receiving
\* end, what the pump wrote to the socket and whether the receive loop still
\* runs
SampleConnection(client_id) ==
    [client_id |-> client_id,
     received_protocol_support |-> FALSE,
     client_authed |-> FALSE,
     queue |-> <<>>,
     receiver |-> TRUE,
     written |-> <<>>,
     open |-> TRUE]

SampleOk(c, clients, log) == [c |-> c, clients |-> clients, res |-> "Ok", log |-> log]

SampleErr(c, clients, log) == [c |-> c, clients |-> clients, res |-> "Err", log |-> log]

\* send_sink.start_send(msg), c being the connection
sample_start_send(c, msg) ==
    IF ~c.receiver THEN [c |-> c, res |-> "Err"]
    ELSE IF Len(c.queue) >= SendSinkCapacity THEN [c |-> c, res |-> "NotReady"]
    ELSE [c |-> [c EXCEPT !.queue = Append(@, msg)], res |-> "Ready"]

\* a test that lets a client ask for its payout info again
PayoutInfoRequestRefusedOnce(c) == ~c.received_protocol_support

\* the two tests that end the connection on a PayoutInfoRequest
PayoutInfoRequestRefused(c) == ~c.received_protocol_support \/ c.client_authed

\* the PayoutInfo and the ShareDifficulty that answer a PayoutInfoRequest
SamplePayoutInfo(c, server_id, user_id, timestamp) ==
    LET payout_info == [user_id |-> user_id,
                        timestamp |-> timestamp,
                        coinbase_postfix |-> ClientCoinbasePostfix(c.client_id, server_id),
                        remaining_payout |-> S_pool,
                        appended_outputs |-> <<>>]
    IN  [type |-> "PayoutInfo", signature |-> Sign(PeerKey, Sha256(3, payout_info)),
         payout_info |-> payout_info]

SampleShareDifficulty ==
    LET difficulty == PoolDifficulty(SHARE_TARGET, [i \in 1..TargetLen |-> 0])
    IN  [type |-> "ShareDifficulty", signature |-> Sign(PeerKey, Sha256(4, difficulty)),
         difficulty |-> difficulty]

\* the PayoutInfoRequest arm once the address is parsed
sample_payout_info(c, clients, server_id, user_id, addr, timestamp) ==
    LET c1 == [c EXCEPT !.client_authed = TRUE]
        clients1 == { e \in clients : e.client_id # c.client_id }
                    \cup { [client_id |-> c.client_id, addr |-> addr] }
        first == sample_start_send(c1, SamplePayoutInfo(c, server_id, user_id, timestamp))
        second == sample_start_send(first.c, SampleShareDifficulty)
    IN  IF first.res = "Err" THEN SampleErr(c1, clients1, "")
        ELSE IF second.res = "Err" THEN SampleErr(first.c, clients1, "")
        ELSE SampleOk(second.c, clients1, "")

\* the body of rx.for_each of one connection
sample_handle_message(c, clients, server_id, msg, timestamp) ==
    CASE msg.type = "ProtocolSupport" ->
            IF msg.min_version > 1 \/ msg.max_version < 1 THEN SampleErr(c, clients, "")
            ELSE LET sent == sample_start_send(c, [type |-> "ProtocolVersion",
                                                   selected_version |-> 1,
                                                   flags |-> 0,
                                                   auth_key |-> PeerKey])
                     log == IF msg.flags # 0 THEN "Client requested unknown flags" ELSE ""
                 IN  IF sent.res = "Err" THEN SampleErr(c, clients, log)
                     ELSE SampleOk([sent.c EXCEPT !.received_protocol_support = TRUE], clients, log)
      [] msg.type = "ProtocolVersion" -> SampleErr(c, clients, "Got ProtocolVersion?")
      [] msg.type = "PayoutInfoRequest" ->
            IF PayoutInfoRequestRefused(c) THEN SampleErr(c, clients, "")
            ELSE IF ~FromUtf8(msg.user_id).some THEN SampleErr(c, clients, "")
            ELSE IF ~AddressFromStr(FromUtf8(msg.user_id).v).some THEN SampleErr(c, clients, "")
            ELSE sample_payout_info(c, clients, server_id, msg.user_id,
                                    AddressFromStr(FromUtf8(msg.user_id).v).v, timestamp)
      [] msg.type = "PayoutInfo" -> SampleErr(c, clients, "Got PayoutInfo?")
      [] msg.type = "ShareDifficulty" -> SampleErr(c, clients, "Got ShareDifficulty?")
      [] msg.type = "Share" ->
            IF ~c.received_protocol_support \/ ~c.client_authed THEN SampleErr(c, clients, "")
            ELSE SampleOk(c, clients, "share checked")
      [] msg.type = "WeakBlock" -> SampleErr(c, clients, "Got WeakBlock with infinite difficulty?")
      [] msg.type = "WeakBlockStateReset" -> SampleErr(c, clients, "Got WeakBlockStateReset?")
      [] msg.type = "NewPoolServer" -> SampleErr(c, clients, "Got NewPoolServer?")

samplerest == <<jp, job_chan, pool, pool_chan, cur_work, work_chan, ev_sent,
                up, panicked, m_args, m_ret, conn, wire, routervars>>

\* listener.incoming() yields a socket: the connection gets the next client id
SampleAccept ==
    /\ Len(sample.conns) < MaxConnections
    /\ sample' = [sample EXCEPT
                    !.conns = Append(@, SampleConnection(sample.max_client_id)),
                    !.max_client_id = @ + 1]
    /\ last' = [op |-> "SampleAccept"]
    /\ UNCHANGED samplerest

\* the receive loop of connection n handles a message, and ends on Err
SampleHandleMessage(n, msg) ==
    /\ sample.conns[n].open
    /\ sample.received < MaxReceived
    /\ \E timestamp \in 1..MaxTimestamp :
         \E r \in { sample_handle_message(sample.conns[n], sample.clients, sample.server_id,
                                          msg, timestamp) } :
           /\ sample' = [sample EXCEPT
                           !.conns[n] = [r.c EXCEPT !.open = (r.res = "Ok")],
                           !.clients = r.clients,
                           !.received = @ + 1]
           /\ last' = [op |-> "SampleHandleMessage", conn |-> n, msg |-> msg,
                       res |-> r.res, log |-> r.log]
    /\ UNCHANGED samplerest

\* tx.send_all(send_stream) writes what is queued to the socket
SampleSendPump(n) ==
    /\ sample.conns[n].receiver
    /\ sample.conns[n].queue # <<>>
    /\ sample' = [sample EXCEPT !.conns[n].written = @ \o sample.conns[n].queue,
                                !.conns[n].queue = <<>>]
    /\ last' = [op |-> "SampleSendPump", conn |-> n]
    /\ UNCHANGED samplerest

\* tx.send_all ends with a write error and drops the receiving end of the sink
SampleSendPumpEnded(n) ==
    /\ sample.conns[n].open
    /\ sample.conns[n].receiver
    /\ sample' = [sample EXCEPT !.conns[n].receiver = FALSE, !.conns[n].queue = <<>>]
    /\ last' = [op |-> "SampleSendPumpEnded", conn |-> n]
    /\ UNCHANGED samplerest

\* the client closes the connection
SampleClientCloses(n) ==
    /\ sample.conns[n].open
    /\ sample' = [sample EXCEPT !.conns[n].open = FALSE]
    /\ last' = [op |-> "SampleClientCloses", conn |-> n]
    /\ UNCHANGED samplerest

SamplePoolInit ==
    /\ SysInit({}, {}, {{}})
    /\ conn = NoMaintainers
    /\ wire = NoWire
    /\ sample \in { [NoSample EXCEPT !.server_id = id] : id \in ServerIds }
    /\ m_args = NoCall
    /\ m_ret = Idle

SamplePoolNext ==
    \/ SampleAccept
    \/ \E n \in 1..Len(sample.conns), msg \in SampleMessages : SampleHandleMessage(n, msg)
    \/ \E n \in 1..Len(sample.conns) : SampleSendPump(n)
    \/ \E n \in 1..Len(sample.conns) : SampleSendPumpEnded(n)
    \/ \E n \in 1..Len(sample.conns) : SampleClientCloses(n)

SpecSamplePool == SamplePoolInit /\ [][SamplePoolNext]_vars

-----------------------------------------------------------------------------
(* Claims about merge_job_pool, under SpecMerge *)

Returned == m_ret.kind = "Some"

InTemplate == m_args.job_info.v.template

OutTemplate == m_ret.work.template

Outputs == OutTemplate.appended_coinbase_outputs

RECURSIVE NatSum(_)
\* the exact sum of the values of a list of outputs
NatSum(outs) ==
    IF outs = <<>> THEN <<0>> ELSE NatAdd(outs[1].value, NatSum(Tail(outs)))

\* the constant outputs of the inputs: the template's and the pool's
ConstantOutputs ==
    InTemplate.appended_coinbase_outputs
    \o (IF m_args.payout_info.some THEN m_args.payout_info.v.info.appended_outputs ELSE <<>>)

\* coinbase_value_remaining minus the constant outputs, where that is not negative
ValueRemaining ==
    Pad(NatAdd(InTemplate.coinbase_value_remaining,
               Neg(Pad(NatSum(ConstantOutputs), U64Len))), U64Len)

\* C5: the values of a merged WorkInfo's outputs sum to at most the input
\* template's coinbase_value_remaining
C5_OutputsWithinRemaining ==
    Returned => NatLe(NatSum(Outputs), InTemplate.coinbase_value_remaining)

\* C6: output 0 of a merged WorkInfo pays the operator's script
\* floor(value_remaining * self_ratio / 1000)
C6_OperatorOutput ==
    Returned =>
      LET ratio == U64(SelfRatio(m_args.payout_info))
          num   == NatMul(ValueRemaining, ratio)
      IN  /\ NatLe(NatSum(ConstantOutputs), InTemplate.coinbase_value_remaining)
          /\ Outputs[1].script_pubkey = S_op
          /\ NatLe(NatMul(Outputs[1].value, U64(1000)), num)
          /\ NatLt(num, NatMul(NatAdd(Outputs[1].value, U64(1)), U64(1000)))

\* C7: merged without a pool, self_ratio is 0, the operator's output takes all
\* of value_remaining and the target is the template's
C7_NoPool ==
    (Returned /\ ~m_args.payout_info.some) =>
      /\ SelfRatio(m_args.payout_info) = 0
      /\ Outputs[1].value = ValueRemaining
      /\ OutTemplate.target = InTemplate.target

\* C8: merged with a pool that has a difficulty, the target is the least of the
\* template's target, share_target and weak_block_target
C8_TargetIsMin ==
    (Returned /\ m_args.payout_info.some /\ m_args.payout_info.v.difficulty.some) =>
      LET three == { InTemplate.target,
                     m_args.payout_info.v.difficulty.v.share_target,
                     m_args.payout_info.v.difficulty.v.weak_block_target }
      IN  /\ OutTemplate.target \in three
          /\ \A t \in three : NatLe(OutTemplate.target, t)

\* a merge in which weak_block_target alone is the least of the three
C8_Witness ==
    /\ Returned /\ m_args.payout_info.some /\ m_args.payout_info.v.difficulty.some
    /\ OutTemplate.target = m_args.payout_info.v.difficulty.v.weak_block_target
    /\ NatLt(OutTemplate.target, m_args.payout_info.v.difficulty.v.share_target)
    /\ NatLt(m_args.payout_info.v.difficulty.v.share_target, InTemplate.target)

\* C9: the merged list is the operator output, then (with a pool) the output
\* paying remaining_payout value_remaining minus the operator value and the
\* pool's appended_outputs, then the template's outputs
C9_OutputList ==
    Returned =>
      LET rest == IF m_args.payout_info.some
                  THEN <<[value |-> Pad(NatAdd(ValueRemaining, Neg(Outputs[1].value)), U64Len),
                          script_pubkey |-> m_args.payout_info.v.info.remaining_payout]>>
                       \o m_args.payout_info.v.info.appended_outputs
                  ELSE <<>>
      IN  /\ Outputs = <<Outputs[1]>> \o rest \o InTemplate.appended_coinbase_outputs
          /\ Outputs[1].script_pubkey = S_op
          /\ NatLe(Outputs[1].value, ValueRemaining)

-----------------------------------------------------------------------------
(* Claims about the two handlers, under Spec *)

\* C1: cur_template changes only to a template that is the first or has a
\* strictly greater template_id than the one it replaces, and a correctly signed
\* BlockTemplate whose template_id is not greater is dropped: handle_message
\* returns Ok, no handler state changes, nothing is queued on the outbound
\* stream and nothing is pushed to the merge job stream
C1_TemplateMonotonic ==
    [][\A p \in Providers :
         /\ jp'[p].cur_template # jp[p].cur_template =>
              /\ jp'[p].cur_template.some
              /\ jp[p].cur_template.some =>
                   jp[p].cur_template.v.template_id < jp'[p].cur_template.v.template_id
         /\ \A msg \in WorkMessages :
              ( /\ last'.op = "JpHandleMessage"
                /\ last'.host = p
                /\ last'.type = msg.type
                /\ msg.type = "BlockTemplate"
                /\ CorrectlySigned(jp[p].auth_key, msg)
                /\ jp[p].cur_template.some
                /\ msg.template.template_id <= jp[p].cur_template.v.template_id
                /\ JpHandleMessage(p, msg) )
              => /\ last'.res = "Ok"
                 /\ jp' = jp
                 /\ job_chan' = job_chan
      ]_vars

\* a correctly signed BlockTemplate was dropped silently on a live connection
\* whose handler holds a template
C1_Witness ==
    \E p \in Providers :
      /\ last = [op |-> "JpHandleMessage", host |-> p, type |-> "BlockTemplate",
                 res |-> "Ok", log |-> ""]
      /\ jp[p].cur_template.some
      /\ jp[p].cur_template.v.template_id = MaxTemplateId
      /\ jp[p].stream.some

\* C2: cur_prefix_postfix and cur_payout_info change only to a value that is the
\* first or has a strictly greater timestamp than the one it replaces, and a
\* correctly signed message whose timestamp is not greater changes no handler
\* state and pushes nothing to the merge job stream
C2_TimestampMonotonic ==
    [][/\ \A p \in Providers :
            /\ jp'[p].cur_prefix_postfix # jp[p].cur_prefix_postfix =>
                 /\ jp'[p].cur_prefix_postfix.some
                 /\ jp[p].cur_prefix_postfix.some =>
                      jp[p].cur_prefix_postfix.v.timestamp < jp'[p].cur_prefix_postfix.v.timestamp
            /\ \A msg \in WorkMessages :
                 ( /\ last'.op = "JpHandleMessage"
                   /\ last'.host = p
                   /\ last'.type = msg.type
                   /\ msg.type = "CoinbasePrefixPostfix"
                   /\ CorrectlySigned(jp[p].auth_key, msg)
                   /\ jp[p].cur_prefix_postfix.some
                   /\ msg.coinbase_prefix_postfix.timestamp <= jp[p].cur_prefix_postfix.v.timestamp
                   /\ JpHandleMessage(p, msg) )
                 => jp' = jp /\ job_chan' = job_chan
       /\ \A q \in Pools :
            /\ pool'[q].cur_payout_info # pool[q].cur_payout_info =>
                 /\ pool'[q].cur_payout_info.some
                 /\ pool[q].cur_payout_info.some =>
                      pool[q].cur_payout_info.v.timestamp < pool'[q].cur_payout_info.v.timestamp
            /\ \A msg \in PoolMessages :
                 ( /\ last'.op = "PoolHandleMessage"
                   /\ last'.host = q
                   /\ last'.type = msg.type
                   /\ msg.type = "PayoutInfo"
                   /\ CorrectlySigned(pool[q].auth_key, msg)
                   /\ pool[q].cur_payout_info.some
                   /\ msg.payout_info.timestamp <= pool[q].cur_payout_info.v.timestamp
                   /\ PoolHandleMessage(q, msg) )
                 => pool' = pool /\ pool_chan' = pool_chan
      ]_vars

\* a correctly signed PayoutInfo was dropped silently by a pool handler that
\* holds the newest payout info
C2_Witness ==
    \E q \in Pools :
      /\ last = [op |-> "PoolHandleMessage", host |-> q, type |-> "PayoutInfo",
                 res |-> "Ok", log |-> ""]
      /\ pool[q].cur_payout_info.some
      /\ pool[q].cur_payout_info.v.timestamp = MaxTimestamp

\* the step closed provider p's connection with Err and changed no other
\* handler field, no pending slot, no Eventual and no merge job stream
JpRefused(p) ==
    /\ last'.res = "Err"
    /\ jp' = [jp EXCEPT ![p].stream = None]
    /\ job_chan' = job_chan
    /\ ev_sent' \subseteq ev_sent

\* the step closed pool q's connection with Err and changed nothing else
PoolRefused(q) ==
    /\ last'.res = "Err"
    /\ pool' = [pool EXCEPT ![q].stream = None]
    /\ pool_chan' = pool_chan

\* C3: a signed message that does not verify under the remembered auth_key, or
\* that comes before any auth_key, makes handle_message return Err: the
\* connection is closed and the call has changed no other handler field, no
\* pending slot, no Eventual and no merge job stream, and queued nothing (no
\* step that is not such a refusal is handle_message on such a message)
C3_SignatureBeforeEffects ==
    [][/\ \A p \in Providers : \A msg \in WorkMessages :
            ( /\ last'.op = "JpHandleMessage"
              /\ last'.host = p
              /\ last'.type = msg.type
              /\ msg.type \in SignedTypes
              /\ ~CorrectlySigned(jp[p].auth_key, msg)
              /\ ~JpRefused(p) )
            => ~JpHandleMessage(p, msg)
       /\ \A q \in Pools : \A msg \in PoolMessages :
            ( /\ last'.op = "PoolHandleMessage"
              /\ last'.host = q
              /\ last'.type = msg.type
              /\ msg.type \in SignedTypes
              /\ ~CorrectlySigned(pool[q].auth_key, msg)
              /\ ~PoolRefused(q) )
            => ~PoolHandleMessage(q, msg)
      ]_vars

\* a BlockTemplate was refused by a handler that has an auth_key and a template
C3_Witness ==
    \E p \in Providers :
      /\ last = [op |-> "JpHandleMessage", host |-> p, type |-> "BlockTemplate",
                 res |-> "Err", log |-> ""]
      /\ jp[p].auth_key.some
      /\ jp[p].cur_template.some
      /\ ~jp[p].stream.some

-----------------------------------------------------------------------------
(* Claims about the choice of the active pool, under SpecPools *)

\* C4: when a pool is connected, the active pool is connected and no connected
\* pool has a lower priority index
C4_ActivePoolIsBestConnected ==
    ( /\ \E q \in Pools : is_connected(pool[q])
      /\ cur_work.cur_pool_source.some )
    => /\ is_connected(pool[cur_work.cur_pool_source.v])
       /\ \A q \in Pools :
            is_connected(pool[q]) =>
              get_priority(cur_work.cur_pool_source.v) <= get_priority(q)

-----------------------------------------------------------------------------
(* Claims about the two update tasks, under SpecWork *)

\* an output above 21000000*100000000
AboveMaxMoney(outs) == \E i \in 1..Len(outs) : NatLt(MaxMoney, outs[i].value)

\* the sanity guard of a merge of a job and a pool's info: an output above
\* MaxMoney, or constant outputs that sum to more than coinbase_value_remaining
GuardTrips(job, pool_info) ==
    LET pool_outs == IF pool_info.some THEN pool_info.v.info.appended_outputs ELSE <<>>
    IN  \/ AboveMaxMoney(job.template.appended_coinbase_outputs)
        \/ AboveMaxMoney(pool_outs)
        \/ NatLt(job.template.coinbase_value_remaining,
                 NatSum(job.template.appended_coinbase_outputs \o pool_outs))

\* nothing of JobInfo, of the channel downstream or of a connection changed,
\* and no task panicked
MergeDropped ==
    /\ cur_work' = cur_work
    /\ work_chan' = work_chan
    /\ jp' = jp
    /\ pool' = pool
    /\ ~panicked'

\* C10: when the sanity guard trips, merge_job_pool returns None, and the update
\* task that called it sends no WorkInfo, leaves JobInfo as it was (the pool
\* task: when there is a current job) and closes no connection
C10_GuardDropsMerge ==
    [][/\ \A p \in Providers :
            ( /\ job_chan[p] # <<>>
              /\ JobIsNewer(cur_work.cur_job, Head(job_chan[p]))
              /\ GuardTrips(Head(job_chan[p]), cur_work.cur_pool)
              /\ JobUpdateTask(p) )
            => /\ \A checks \in BOOLEAN :
                    merge_job_pool(S_op, Some(Head(job_chan[p])), Some(p), cur_work.cur_pool,
                                   cur_work.cur_pool_source, checks) = ResNone
               /\ last'.res = "None"
               /\ MergeDropped
       /\ \A q \in Pools :
            ( /\ pool_chan[q] # <<>>
              /\ ~PoolIsOutranked(cur_work, pool, q)
              /\ cur_work.cur_job.some
              /\ GuardTrips(cur_work.cur_job.v, Some(Head(pool_chan[q])))
              /\ PoolUpdateTask(q) )
            => /\ \A checks \in BOOLEAN :
                    merge_job_pool(S_op, cur_work.cur_job, cur_work.cur_job_source,
                                   Some(Head(pool_chan[q])), Some(q), checks) = ResNone
               /\ last'.res = "None"
               /\ MergeDropped
      ]_vars

\* the pool update task dropped a merge while JobInfo holds a job and both
\* upstream connections are up
C10_Witness ==
    /\ last = [op |-> "PoolUpdateTask", host |-> 0, res |-> "None"]
    /\ cur_work.cur_job.some
    /\ \A p \in Providers : jp[p].stream.some
    /\ pool[0].stream.some

-----------------------------------------------------------------------------
(* Claims about the solution routers, under SpecRouter *)

\* the target of the BlockTemplate the job provider sent under a template_id
ProviderTarget(id) == (CHOOSE t \in Templates : t.template_id = id).target

\* the job provider's connection is up: the handler has a stream that the send
\* pump still reads
ProviderUp(p) == jp[p].stream.some /\ jp[p].stream.v.receiver

\* C11: a solution whose hash meets the target of the BlockTemplate that the
\* job provider sent is submitted as a WinningNonce to that provider when its
\* connection is up, whatever the pool's share and weak block targets are
C11_FullBlockSolutionToProvider ==
    [][\A i \in 1..MaxServed, hash \in Hashes :
         ( /\ last'.op = "RouterSolution"
           /\ last'.work = i
           /\ last'.hash = hash
           /\ i <= Len(served)
           /\ served[i].job_source.some
           /\ does_hash_meet_target(hash, ProviderTarget(served[i].template.template_id))
           /\ ProviderUp(served[i].job_source.v)
           /\ RouterSolution(i, hash) )
         => jp'[served[i].job_source.v].stream.v.queue =
              Append(jp[served[i].job_source.v].stream.v.queue,
                     [type |-> "WinningNonce", nonces |-> Len(sols) + 1])
      ]_vars

\* how many Shares of the solution with a nonce wait on the pools' streams
SharesQueued(pools, nonce) ==
    Cardinality({ <<q, i>> \in (DOMAIN pools) \X (1..MaxSolutions) :
                    /\ pools[q].stream.some
                    /\ i <= Len(pools[q].stream.v.queue)
                    /\ pools[q].stream.v.queue[i].type = "Share"
                    /\ pools[q].stream.v.queue[i].share.header_nonce = nonce })

\* how many Shares were sent for the solution with a nonce
SharesSent(ss, nonce) == IF nonce <= Len(ss) THEN ss[nonce].shares ELSE 0

\* C12: at most one Share is submitted to the pool for a solution, and none
\* before the Eventual of the solution's WorkInfo holds its TransactionData
C12_ShareOnceAfterTxData ==
    [][\A nonce \in 1..MaxSolutions :
         /\ SharesSent(sols', nonce) <= 1
         /\ SharesQueued(pool', nonce) > SharesQueued(pool, nonce)
              => /\ SharesQueued(pool', nonce) = SharesQueued(pool, nonce) + 1
                 /\ SharesSent(sols', nonce) = SharesSent(sols, nonce) + 1
         /\ SharesSent(sols', nonce) > SharesSent(sols, nonce)
              => /\ sols'[nonce].tx_data \in ev_value'
                 /\ sols'[nonce].tx_data \in ev_sent
      ]_vars

\* a Share was sent from a closure that waited for the TransactionData
C12_Witness ==
    /\ last.op = "EventualResolve"
    /\ sols # <<>>
    /\ sols[1].shares = 1
    /\ sols[1].tx_data = last.tx_data
    /\ callees = <<>>

\* C14: a solution whose hash does not meet the merged target of the WorkInfo it
\* was found on is never submitted as a Share
C14_NoShareAboveMergedTarget ==
    \A n \in 1..Len(sols) :
      sols[n].shares > 0 => does_hash_meet_target(sols[n].hash, sols[n].target)

-----------------------------------------------------------------------------
(* Claims about re-issued jobs, under SpecReissue *)

\* nothing is on its way: the channels are empty, the requests are written and
\* answered, and no Eventual waits for its task to run
Quiescent ==
    /\ \A p \in Providers :
         /\ job_chan[p] = <<>>
         /\ jp[p].pending_tx_data_requests = {}
         /\ jp[p].stream.some
         /\ jp[p].stream.v.queue = <<>>
    /\ \A q \in Pools : pool_chan[q] = <<>>
    /\ work_chan = <<>>
    /\ ev_sent \subseteq ev_value
    /\ ~panicked

\* C13: with every TransactionDataRequest answered and the pool connected with
\* a known difficulty, a solution found on the active WorkInfo whose hash meets
\* the pool's share_target has had its Share sent once nothing is on its way
C13_ShareEventuallySent ==
    Quiescent =>
      \A n \in 1..Len(sols) :
        ( /\ sols[n].active
          /\ sols[n].payout_source.some
          /\ pool[sols[n].payout_source.v].stream.some
          /\ pool[sols[n].payout_source.v].cur_difficulty.some
          /\ does_hash_meet_target(sols[n].hash,
                 pool[sols[n].payout_source.v].cur_difficulty.v.share_target) )
        => sols[n].shares = 1

\* C15: once nothing is on its way, the WorkInfo the server took last is the
\* merge of the handler's current template and its current postfix: the job
\* re-issued for a newer postfix has been delivered
C15_ReissuedJobDelivered ==
    Quiescent =>
      \A p \in Providers :
        (jp[p].cur_template.some /\ jp[p].cur_prefix_postfix.some)
        => /\ served # <<>>
           /\ served[Len(served)].template.coinbase_prefix =
                MergedPrefix(jp[p].cur_template.v.coinbase_prefix,
                             jp[p].cur_prefix_postfix, cur_work.cur_pool)

-----------------------------------------------------------------------------
(* Claims about the connection maintainers, under SpecConn *)

\* what a maintainer has outstanding
Outstanding(c) == c.timers + c.connects + c.recv_loops

\* the handler of a host has a connection
HasConnection(h) ==
    \/ \E p \in Providers : h = JobProviderHost(p) /\ jp[p].stream.some
    \/ \E q \in Pools : h = PoolServerHost(q) /\ pool[q].stream.some

\* the step ended a pump of host h's connection: the send pump ended, the
\* receive loop ended on its own, or handle_message returned Err
PumpEnded(h) ==
    /\ HasConnection(h)
    /\ \/ \E p \in Providers :
            /\ h = JobProviderHost(p)
            /\ \/ last'.op \in {"JpSendPumpEnded", "JpConnectionClosed"}
               \/ last'.op = "JpHandleMessage" /\ last'.res = "Err"
            /\ last'.host = p
       \/ \E q \in Pools :
            /\ h = PoolServerHost(q)
            /\ \/ last'.op \in {"PoolSendPumpEnded", "PoolConnectionClosed"}
               \/ last'.op = "PoolHandleMessage" /\ last'.res = "Err"
            /\ last'.host = q

\* C16: a step in which either pump of a connection ends has called
\* connection_closed on the handler and has started a new connection attempt
\* for the host, a connect or the timer before it
C16_PumpEndReconnects ==
    [][\A h \in ConnHosts :
         PumpEnded(h) =>
           /\ ~HasConnection(h)'
           /\ conn'[h].timers + conn'[h].connects = conn[h].timers + conn[h].connects + 1]_vars

\* C17: while the process runs, every host has exactly one of a pending
\* connect, a connection whose receive loop runs, and a pending timer; the
\* receive loop runs exactly when the handler has its connection
C17_OneOutstandingPerHost ==
    ~panicked =>
      \A h \in ConnHosts :
        /\ Outstanding(conn[h]) = 1
        /\ conn[h].recv_loops = 1 <=> HasConnection(h)

\* a disconnect has been followed by a connect to the next address, after a
\* timer and a failed connect on the other host
C17_Witness ==
    /\ last.op = "JpConnectionClosed"
    /\ conn[JobProviderHost(1)].connects = 1
    /\ conn[PoolServerHost(0)].timers = 1
    /\ conn[PoolServerHost(0)].cur_addrs = None

\* the step closed host h's connection because handle_message returned Err
ClosedOnError(h) ==
    \/ \E p \in Providers :
         h = JobProviderHost(p) /\ last'.op = "JpHandleMessage" /\ last'.host = p /\ last'.res = "Err"
    \/ \E q \in Pools :
         h = PoolServerHost(q) /\ last'.op = "PoolHandleMessage" /\ last'.host = q /\ last'.res = "Err"

\* C18: a connection closed on a protocol error leaves the maintainer with the
\* 30 second timer and no TCP connect
C18_BackoffAfterProtocolError ==
    [][\A h \in ConnHosts :
         ClosedOnError(h) => conn'[h].connects = 0 /\ conn'[h].timers = 1]_vars

\* C19: handling a BlockTemplate or a CoinbasePrefixPostfix panics in no state
C19_NoHandlerPanic ==
    [][(last'.op = "JpHandleMessage" /\ last'.type \in {"BlockTemplate", "CoinbasePrefixPostfix"})
         => last'.res # "Panic" /\ ~panicked']_vars

-----------------------------------------------------------------------------
(* Claims about full channels, under SpecFlood *)

\* the step handled a message of pool q that made the handler push onto its
\* channel to the merger while the channel held all it can hold
PushOntoFullChannel(q) ==
    /\ Len(pool_chan[q]) >= PoolChanCapacity
    /\ last'.op = "PoolHandleMessage"
    /\ last'.host = q
    /\ \/ last'.type = "PayoutInfo" /\ last'.log = "Received new payout info!"
       \/ last'.type = "ShareDifficulty" /\ pool[q].cur_payout_info.some

\* C20: a message whose push finds the pool's channel full closes the pool's
\* connection
C20_FullChannelClosesConnection ==
    [][\A q \in Pools :
         PushOntoFullChannel(q) => last'.res = "Err" /\ ~pool'[q].stream.some]_vars

-----------------------------------------------------------------------------
(* Claims about the sizes of a merged template, under SpecLimits *)

\* C29: the appended_coinbase_outputs and the merkle_rhss of a merged template
\* have at most 255 entries each
C29_CountsFitU8 ==
    Returned =>
      /\ Len(m_ret.work.template.appended_coinbase_outputs) <= U8Max
      /\ Len(m_ret.work.template.merkle_rhss) <= U8Max

\* C30: the coinbase_prefix of a merged template is the template's prefix, the
\* provider's postfix and the pool's postfix in that order, and at most 100
\* bytes long
C30_PrefixWithinLimit ==
    Returned =>
      /\ m_ret.work.template.coinbase_prefix =
           MergedPrefix(m_args.job_info.v.template.coinbase_prefix,
                        m_args.job_info.v.postfix, m_args.payout_info)
      /\ Len(m_ret.work.template.coinbase_prefix) <= MaxCoinbaseField

-----------------------------------------------------------------------------
(* Claims about several job providers, under SpecProviders *)

\* the step is the job update task of provider p taking a job from its channel
JobTaken(p) ==
    /\ job_chan[p] # <<>>
    /\ last'.op = "JobUpdateTask"
    /\ last'.host = p

\* C28: the job update task makes every template its provider's handler
\* accepted the current job and issues a WorkInfo built from it, whatever
\* template ids the other providers have used
C28_LatestJobOfAnyProvider ==
    [][\A p \in Providers :
         JobTaken(p) =>
           /\ cur_work'.cur_job = Some(Head(job_chan[p]))
           /\ cur_work'.cur_job_source = Some(p)
           /\ work_chan' # <<>>
           /\ work_chan'[Len(work_chan')].template.template_id = Head(job_chan[p]).template.template_id
           /\ work_chan'[Len(work_chan')].job_source = Some(p)]_vars

-----------------------------------------------------------------------------
(* Claims about Eventual, under SpecEventual *)

\* the Share a closure sends when it is called
ShareOf(c) ==
    [type |-> "Share",
     share |-> [header_nbits |-> c.template.header_nbits,
                header_nonce |-> c.nonces.nonce,
                merkle_rhss |-> c.template.merkle_rhss]]

\* what is queued on the stream of pool q
PoolQueue(q) == pool[q].stream.v.queue

\* the step is the task of Eventual e delivering the value
Delivered(e) == last'.op = "EventualResolve" /\ last'.tx_data = e

\* the step is a router handing the Eventual of the i-th kept WorkInfo a closure
\* after that Eventual got its value
EnqueuedAfterDelivery(i) ==
    /\ last'.op = "RouterSolution"
    /\ last'.work = i
    /\ i \in 1..Len(served)
    /\ served[i].payout_source.some
    /\ served[i].tx_data \in ev_value

\* C26: the delivery calls the closures that wait on the Eventual once each, in
\* the order they were handed to get_and, and leaves none waiting; a closure
\* handed to get_and after the delivery is called in that step and is not
\* kept; a value is set once and stays while the Eventual is referred to
C26_EventualCallbacks ==
    [][/\ \A e \in ev_sent :
            Delivered(e) =>
              /\ e \notin ev_value
              /\ e \in ev_value'
              /\ \A c \in 1..Len(callees') : callees'[c].tx_data # e
              /\ PoolQueue(0)' = PoolQueue(0) \o [n \in 1..Len(Waiting(e)) |-> ShareOf(Waiting(e)[n])]
              /\ \A n \in 1..Len(Waiting(e)) :
                   sols'[Waiting(e)[n].nonces.nonce].shares = sols[Waiting(e)[n].nonces.nonce].shares + 1
       /\ \A i \in 1..MaxServed :
            EnqueuedAfterDelivery(i) =>
              /\ callees' = callees
              /\ PoolQueue(0)' = Append(PoolQueue(0), ShareOf(Callee(served[i], Solution(Len(sols) + 1, last'.hash))))
              /\ sols'[Len(sols')].shares = 1
       /\ ev_value \cap ev_sent' \subseteq ev_value']_vars

\* two closures waited and were called in their order, and a value is set
C26_Witness ==
    /\ last.op = "EventualResolve"
    /\ Len(sols) = 2
    /\ sols[1].shares = 1
    /\ sols[2].shares = 1
    /\ Len(PoolQueue(0)) = 2
    /\ PoolQueue(0)[1].share.header_nonce = 1
    /\ PoolQueue(0)[2].share.header_nonce = 2

-----------------------------------------------------------------------------
(* Claims about the framers, under SpecCodec *)

\* a is the beginning of b
IsPrefix(a, b) == Len(a) <= Len(b) /\ SubSeq(b, 1, Len(a)) = a

\* the bytes the peer wrote for the message that is decoded next
HeadEncoding == FramerEncode(wire.framer, Head(wire.sent))

\* this step is a call of decode
DecodeCalled == last'.op = "Decode" /\ wire.sent # <<>>

\* the message that is decoded next has its fields within the limits
HeadWithinLimits ==
    Head(wire.sent) \in (IF wire.framer = "work" THEN CodecWorkMessages ELSE CodecPoolMessages)

\* C21: when the buffer holds all the bytes encode wrote for a message whose
\* fields are within the limits, decode returns that message and takes exactly
\* those bytes from the buffer, whatever the variant.
C21_RoundTrip ==
    [][ (DecodeCalled /\ HeadWithinLimits /\ IsPrefix(HeadEncoding, wire.buf))
        => /\ last'.ret.res = "Some"
           /\ last'.ret.msg = Head(wire.sent)
           /\ wire'.buf = SubSeq(wire.buf, Len(HeadEncoding) + 1, Len(wire.buf)) ]_vars

\* C22: when the buffer holds only a beginning of the bytes of a message within
\* the limits, decode returns Ok(None) and the buffer is what it was; and
\* whenever decode returns Ok(None) the buffer is what it was.
C22_PrefixNeedsMore ==
    [][ DecodeCalled
        => /\ (HeadWithinLimits /\ IsPrefix(wire.buf, HeadEncoding) /\ wire.buf # HeadEncoding)
                => last'.ret.res = "None"
           /\ last'.ret.res = "None" => wire'.buf = wire.buf ]_vars

\* decode has returned Ok(None) on more than the fixed part of a BlockTemplate
\* of which bytes are still to come
C22_Witness ==
    /\ last.op = "Decode"
    /\ last.ret.res = "None"
    /\ wire.sent # <<>>
    /\ Head(wire.sent).type = "BlockTemplate"
    /\ HeadWithinLimits
    /\ Len(wire.buf) > 172
    /\ wire.pending # <<>>
    /\ IsPrefix(wire.buf, HeadEncoding)
    /\ wire.buf # HeadEncoding

\* C23: WorkMsgFramer's decode returns Err, and the connection ends, when the
\* buffer holds a BlockTemplate with a merkle_rhss count above 15 or a
\* coinbase_prefix length above 100, a CoinbasePrefixPostfix with a length
\* above 100, or a type byte outside 1..7.
C23_WorkLimitsRefused ==
    [][ (/\ DecodeCalled
         /\ wire.framer = "work"
         /\ Head(wire.sent) \in CodecWorkRefused
         /\ IsPrefix(HeadEncoding, wire.buf))
        => last'.ret.res = "Err" /\ wire' = NoWire ]_vars

\* decode has returned Err on a BlockTemplate that announces 16 merkle_rhss
C23_Witness ==
    /\ last.op = "Decode"
    /\ last.framer = "work"
    /\ last.ret.res = "Err"
    /\ Len(last.buf) > 172
    /\ last.buf[1] = 3
    /\ ByteAt(last.buf, 149) = MaxMerkleRhss + 1

\* C24: PoolMsgFramer's decode returns Err when the buffer holds a PayoutInfo
\* with a coinbase_postfix longer than 100 or a self_payout_ratio_per_1000
\* above 1000, and every PayoutInfo it returns is within these limits.
C24_PayoutInfoLimitsRefused ==
    [][ (DecodeCalled /\ wire.framer = "pool")
        => /\ (/\ Head(wire.sent) \in CodecPoolRefused
               /\ Head(wire.sent).type = "PayoutInfo"
               /\ IsPrefix(HeadEncoding, wire.buf))
                => last'.ret.res = "Err"
           /\ (last'.ret.res = "Some" /\ last'.ret.msg.type = "PayoutInfo")
                => /\ Len(last'.ret.msg.payout_info.coinbase_postfix) <= MaxCoinbaseField
                   /\ last'.ret.msg.payout_info.self_payout_ratio_per_1000 <= MaxPayoutRatio ]_vars

\* the bytes check_msg_sig! hashes after the type byte
UnsignedEncoding(msg) ==
    CASE msg.type = "BlockTemplate" -> BlockTemplateEncodeUnsigned(msg.template)
      [] msg.type = "CoinbasePrefixPostfix" ->
            CoinbasePrefixPostfixEncodeUnsigned(msg.coinbase_prefix_postfix)
      [] msg.type = "PayoutInfo" -> PoolPayoutInfoEncodeUnsigned(msg.payout_info)

\* C27: when decode returns a BlockTemplate, a CoinbasePrefixPostfix or a
\* PayoutInfo, encode_unsigned of the decoded value is the bytes the buffer
\* held between the 64 bytes of the signature and the end of the message.
C27_UnsignedEncodingIsWireBytes ==
    [][ (/\ DecodeCalled
         /\ last'.ret.res = "Some"
         /\ last'.ret.msg.type \in {"BlockTemplate", "CoinbasePrefixPostfix", "PayoutInfo"})
        => UnsignedEncoding(last'.ret.msg) = Slice(wire.buf, 65, last'.ret.read_pos - 65) ]_vars

\* decode has returned a BlockTemplate with two merkle_rhss and two outputs
C27_Witness ==
    /\ last.op = "Decode"
    /\ last.ret.res = "Some"
    /\ last.ret.msg.type = "BlockTemplate"
    /\ Len(last.ret.msg.template.merkle_rhss) = 2
    /\ Len(last.ret.msg.template.appended_coinbase_outputs) = 2
    /\ last.ret.read_pos = Len(last.buf)

-----------------------------------------------------------------------------
(* Claims about a connection from the bytes up, under SpecRecv *)

\* this step is a poll of the receive loop
Polled == last'.op \in {"Decode", "JpHandleMessage", "PoolHandleMessage"}

\* the buffer begins with all the bytes of a message of a variant the proxy
\* does not accept from this peer
NotAcceptedArrived ==
    /\ wire.sent # <<>>
    /\ Head(wire.sent) \in (IF wire.framer = "work" THEN WorkNotAccepted ELSE PoolNotAccepted)
    /\ IsPrefix(HeadEncoding, wire.buf)

\* the connection the bytes arrive on has been closed
ConnectionClosed ==
    IF wire.framer = "work" THEN \A p \in Providers : ~jp'[p].stream.some
    ELSE \A q \in Pools : ~pool'[q].stream.some

\* C25: when all the bytes of a ProtocolSupport, WinningNonce or
\* TransactionDataRequest of a job provider, or of a ProtocolSupport, Share or
\* WeakBlock of a pool, are in the buffer, the poll of the receive loop ends
\* with the connection closed.
C25_NotAcceptedCloses ==
    [][ (Polled /\ NotAcceptedArrived) => ConnectionClosed ]_vars

-----------------------------------------------------------------------------
(* Claims about the pool update task and the active pool, under SpecPools *)

\* the pool update task of q took an item in this step
PoolTaskRan(q) == last'.op = "PoolUpdateTask" /\ last'.host = q

\* the active pool is connected and its index is smaller than q's
ActiveOutranks(q) ==
    /\ cur_work.cur_pool_source.some
    /\ pool[cur_work.cur_pool_source.v].stream.some
    /\ cur_work.cur_pool_source.v < q

\* C31: when the pool update task of q takes an item while the active pool is
\* connected and has a smaller index than q, merge_job_pool is not called, no
\* WorkInfo is sent and cur_pool and cur_pool_source stay; in every other case
\* merge_job_pool is called.
C31_OutrankedPoolIgnored ==
    [][ \A q \in Pools :
          PoolTaskRan(q)
          => IF ActiveOutranks(q)
             THEN /\ last'.res = "Skipped"
                  /\ work_chan' = work_chan
                  /\ cur_work' = cur_work
             ELSE last'.res \in {"Some", "None", "Panic"} ]_vars

\* info of the second pool has been ignored while the first pool is active and
\* connected
C31_Witness ==
    /\ last.op = "PoolUpdateTask"
    /\ last.res = "Skipped"
    /\ last.host = 1
    /\ cur_work.cur_pool_source = Some(0)
    /\ pool[0].stream.some

-----------------------------------------------------------------------------
(* Claims about the first message to a job provider, under SpecSupport *)

\* the ProtocolSupport of a client that has pools configured, or has none
ClientSupport ==
    [type |-> "ProtocolSupport", max_version |-> 1, min_version |-> 1,
     flags |-> IF DOMAIN pool # {} THEN 0 ELSE 1]

\* C32: a job provider's outbound stream comes to exist only by new_connection,
\* at the first connection and at every later one, and it then holds
\* ProtocolSupport { max_version: 1, min_version: 1, flags: 0 with a pool
\* configured and 1 with none } and nothing else; handle_message runs only
\* with a stream in place and only appends to what is queued on it, so no
\* message of the connection is handled before ProtocolSupport is queued and
\* none is queued ahead of it.
C32_SupportQueuedFirst ==
    [][ \A p \in DOMAIN jp :
          /\ (jp'[p].stream.some /\ (~jp[p].stream.some \/ last'.op = "JpNewConnection"))
             => /\ last'.op = "JpNewConnection"
                /\ last'.host = p
                /\ jp'[p].stream.v.queue = <<ClientSupport>>
          /\ (last'.op = "JpHandleMessage" /\ last'.host = p)
             => /\ jp[p].stream.some
                /\ conn[JobProviderHost(p)].recv_loops > 0
                /\ jp'[p].stream.some => IsPrefix(jp[p].stream.v.queue, jp'[p].stream.v.queue) ]_vars

\* a job provider has been connected to again after its connection had ended,
\* by a client without pools
C32_Witness ==
    /\ last.op = "JpNewConnection"
    /\ jp[1].auth_key.some
    /\ jp[1].stream.some
    /\ jp[1].stream.v.queue = <<[type |-> "ProtocolSupport", max_version |-> 1, min_version |-> 1, flags |-> 1]>>
    /\ DOMAIN pool = {}

-----------------------------------------------------------------------------
(* Claims about ProtocolVersion and the auth key, under Spec *)

ProtocolVersions(msgs) == { msg \in msgs : msg.type = "ProtocolVersion" }

\* what the claim has a handler holding the key `held` do with a ProtocolVersion
VersionRuling(held, msg, r) ==
    /\ msg.selected_version # 1 => r.res = "Err"
    /\ (held.some /\ held.v # msg.auth_key) => r.res = "Err"
    /\ held.some => r.h.auth_key = held

\* C33: the handler of a job provider and that of a pool answer a
\* ProtocolVersion whose selected_version is not 1 with an error, and one
\* that carries another key than the auth_key they hold with an error; an
\* auth_key once set is the same after every later step, messages,
\* disconnections and reconnections included.
C33_VersionAndKeyPinned ==
    /\ [](/\ \A p \in DOMAIN jp : \A msg \in ProtocolVersions(WorkMessages) :
               VersionRuling(jp[p].auth_key, msg,
                             jp_handle_message(p, jp[p], job_chan[p], ev_sent, msg))
          /\ \A q \in DOMAIN pool : \A msg \in ProtocolVersions(PoolMessages) :
               VersionRuling(pool[q].auth_key, msg,
                             pool_handle_message(pool[q], pool_chan[q], msg)))
    /\ [][ /\ \A p \in DOMAIN jp : jp[p].auth_key.some => jp'[p].auth_key = jp[p].auth_key
           /\ \A q \in DOMAIN pool : pool[q].auth_key.some => pool'[q].auth_key = pool[q].auth_key
           /\ (/\ last'.op \in {"JpHandleMessage", "PoolHandleMessage"}
               /\ last'.type = "ProtocolVersion"
               /\ last'.res = "Ok")
              => (\E k \in Keys : IF last'.op = "JpHandleMessage"
                                  THEN jp'[last'.host].auth_key = Some(k)
                                  ELSE pool'[last'.host].auth_key = Some(k)) ]_vars

\* a job provider that had given its key has been connected to again and has
\* then sent a ProtocolVersion with another key, which was answered with an error
C33_Witness ==
    /\ last.op = "JpHandleMessage"
    /\ last.type = "ProtocolVersion"
    /\ last.res = "Err"
    /\ last.log = "Got unexpected auth key"
    /\ jp[1].auth_key = Some(PeerKey)

-----------------------------------------------------------------------------
(* Claims about the installation of a BlockTemplate, under SpecJobFlood *)

\* handle_message of job provider p handled a BlockTemplate in this step
TemplateHandled(p) ==
    /\ last'.op = "JpHandleMessage"
    /\ last'.host = p
    /\ last'.type = "BlockTemplate"

\* C34: a handle_message call that installs a BlockTemplate as cur_template
\* pushes exactly one job made of that template, the current prefix postfix
\* and a new Eventual onto the merge job stream, queues exactly one
\* TransactionDataRequest for it on the outbound stream and registers the
\* pending slot of that Eventual; a call that finds the template newer and
\* whose push puts nothing on the merge job stream leaves cur_template, the
\* pending slots and the outbound stream as they were.
C34_InstallPushesOnce ==
    [][ \A p \in DOMAIN jp :
          TemplateHandled(p)
          => /\ jp'[p].cur_template # jp[p].cur_template
                => LET job == Job(p, jp'[p].cur_template.v, jp[p].cur_prefix_postfix)
                   IN  /\ job_chan'[p] = Append(job_chan[p], job)
                       /\ jp'[p].stream.v.queue =
                            Append(jp[p].stream.v.queue,
                                   [type |-> "TransactionDataRequest",
                                    template_id |-> job.template.template_id])
                       /\ job.tx_data \in jp'[p].pending_tx_data_requests
             /\ (last'.log = "Received new BlockTemplate" /\ job_chan'[p] = job_chan[p])
                => /\ jp'[p].cur_template = jp[p].cur_template
                   /\ jp'[p].pending_tx_data_requests = jp[p].pending_tx_data_requests
                   /\ jp'[p].stream = jp[p].stream ]_vars

-----------------------------------------------------------------------------
(* Claims about handle_message returning an error, under Spec *)

\* the call returned r without having touched the handler h or its channel
Untouched(h, chan, r) == r.h = h /\ r.chan = chan

-----------------------------------------------------------------------------
(* Claims about the order of the Shares of a WorkInfo, under SpecEventual *)

\* the messages this step queued on the stream of pool q
Submitted(q) ==
    IF /\ last'.op \in {"RouterSolution", "EventualResolve"}
       /\ pool[q].stream.some
       /\ pool'[q].stream.some
       /\ Len(pool'[q].stream.v.queue) > Len(pool[q].stream.v.queue)
    THEN SubSeq(pool'[q].stream.v.queue, Len(pool[q].stream.v.queue) + 1,
                Len(pool'[q].stream.v.queue))
    ELSE <<>>

\* solutions m and n were received on the solution channel of the same WorkInfo
SameWorkInfo(m, n) ==
    /\ sols'[m].tx_data = sols'[n].tx_data
    /\ sols'[m].template_id = sols'[n].template_id
    /\ sols'[m].target = sols'[n].target
    /\ sols'[m].payout_source = sols'[n].payout_source
    /\ sols'[m].job_source = sols'[n].job_source

\* C35: the Shares of the solutions of one WorkInfo are queued for the pool
\* in the order in which the solutions were received: those queued in one step
\* are in that order, and when the Share of a solution is queued no earlier
\* solution of the same WorkInfo is still waiting for the TransactionData, be
\* it that the Share had waited itself or that its solution arrived after
\* the TransactionData.
C35_SharesInOrderReceived ==
    [][ \A q \in DOMAIN pool :
          LET new == Submitted(q)
          IN  /\ \A i, j \in 1..Len(new) :
                   (i < j /\ SameWorkInfo(new[i].share.header_nonce, new[j].share.header_nonce))
                   => new[i].share.header_nonce < new[j].share.header_nonce
              /\ \A i \in 1..Len(new) : \A k \in 1..Len(callees') :
                   ~ /\ callees'[k].nonces.nonce < new[i].share.header_nonce
                     /\ SameWorkInfo(callees'[k].nonces.nonce, new[i].share.header_nonce) ]_vars

\* the Shares of two solutions of one WorkInfo that had waited for the
\* TransactionData have been sent
C35_Witness ==
    /\ last.op = "EventualResolve"
    /\ Len(sols) = 2
    /\ sols[1].shares = 1
    /\ sols[2].shares = 1
    /\ sols[1].tx_data = last.tx_data
    /\ sols[2].tx_data = last.tx_data
    /\ sols[1].template_id = sols[2].template_id
    /\ sols[1].target = sols[2].target

-----------------------------------------------------------------------------
(* Claims about the end of a router, under SpecSuperseded *)

\* how many messages of a type are queued on a stream
CountQueued(stream, type) ==
    IF stream.some THEN Len(SelectSeq(stream.v.queue, LAMBDA m : m.type = type)) ELSE 0

\* the router of the i-th WorkInfo the server keeps took a solution in this step
Routed(i) == last'.op = "RouterSolution" /\ last'.work = i

-----------------------------------------------------------------------------
(* Claims about pool info that arrives before the first job, under SpecWork *)

\* the merged template carries the pool's info: its postfix ends the coinbase
\* prefix, its remaining payout is the second output, and the target is the
\* least of the template's and the pool's targets
MergedWith(w, job, pool_info) ==
    /\ w.template.coinbase_prefix =
         job.template.coinbase_prefix
         \o (IF job.postfix.some THEN job.postfix.v.coinbase_prefix_postfix ELSE <<>>)
         \o pool_info.info.coinbase_postfix
    /\ Len(w.template.appended_coinbase_outputs) >= 2
    /\ w.template.appended_coinbase_outputs[2].script_pubkey = pool_info.info.remaining_payout
    /\ w.template.target = MergedTarget(job.template.target, Some(pool_info))

\* C37: pool info that the pool update task takes while JobInfo has no
\* current job, and that the priority rule does not turn away, is stored as
\* cur_pool with the pool's handler as cur_pool_source and no WorkInfo is
\* sent; the first WorkInfo, merged when the job update task takes a job while
\* there is still no current job, is merged with the stored cur_pool and has
\* the stored cur_pool_source as the handler its Shares go to.
C37_StoredPoolMergedIntoFirstWork ==
    [][ /\ \A q \in DOMAIN pool :
             (PoolTaskRan(q) /\ ~cur_work.cur_job.some /\ ~ActiveOutranks(q))
             => /\ last'.res = "None"
                /\ cur_work' = [cur_work EXCEPT !.cur_pool = Some(Head(pool_chan[q])),
                                                !.cur_pool_source = Some(q)]
                /\ work_chan' = work_chan
        /\ \A p \in DOMAIN jp :
             ( /\ last'.op = "JobUpdateTask"
               /\ last'.host = p
               /\ last'.res = "Some"
               /\ ~cur_work.cur_job.some
               /\ cur_work.cur_pool.some )
             => /\ cur_work'.cur_job = Some(Head(job_chan[p]))
                /\ cur_work'.cur_pool = cur_work.cur_pool
                /\ cur_work'.cur_pool_source = cur_work.cur_pool_source
                /\ Len(work_chan') = Len(work_chan) + 1
                /\ work_chan'[Len(work_chan')].payout_source = cur_work.cur_pool_source
                /\ MergedWith(work_chan'[Len(work_chan')], Head(job_chan[p]), cur_work.cur_pool.v) ]_vars

\* the first job has been merged with the payout info and the difficulty that
\* the first pool had sent before it, and the WorkInfo is on its way to the server
C37_Witness ==
    /\ last = [op |-> "JobUpdateTask", host |-> 1, res |-> "Some"]
    /\ cur_work.cur_job.some
    /\ cur_work.cur_job.v.template.template_id = 1
    /\ cur_work.cur_pool.some
    /\ cur_work.cur_pool.v.difficulty.some
    /\ cur_work.cur_pool_source = Some(0)
    /\ Len(work_chan) = 1
    /\ work_chan[1].payout_source = Some(0)
    /\ work_chan[1].tx_data = cur_work.cur_job.v.tx_data
    /\ work_chan[1].template.target # cur_work.cur_job.v.template.target

-----------------------------------------------------------------------------
(* Claims about the sources kept in JobInfo, under SpecSources *)

\* the provider whose handler made the job: the one that made its Eventual
SupplierOf(job) == job.tx_data.source

\* C38: in every reachable state cur_job_source is set exactly when cur_job
\* is, and is the handler of the provider that supplied cur_job;
\* cur_pool_source is set exactly when cur_pool is, and both are set together,
\* by the update task of the pool whose channel the info came from; and every
\* WorkInfo has as job_source, where its router sends WinningNonce, the
\* provider that supplied its template.
C38_SourcesMatchSuppliers ==
    /\ [](/\ cur_work.cur_job_source.some <=> cur_work.cur_job.some
          /\ cur_work.cur_job.some => cur_work.cur_job_source = Some(SupplierOf(cur_work.cur_job.v))
          /\ cur_work.cur_pool_source.some <=> cur_work.cur_pool.some
          /\ \A i \in 1..Len(work_chan) : work_chan[i].job_source = Some(SupplierOf(work_chan[i])))
    /\ [][ /\ (cur_work'.cur_pool # cur_work.cur_pool \/ cur_work'.cur_pool_source # cur_work.cur_pool_source)
              => /\ last'.op = "PoolUpdateTask"
                 /\ cur_work'.cur_pool = Some(Head(pool_chan[last'.host]))
                 /\ cur_work'.cur_pool_source = Some(last'.host)
           /\ (cur_work'.cur_job # cur_work.cur_job \/ cur_work'.cur_job_source # cur_work.cur_job_source)
              => /\ last'.op = "JobUpdateTask"
                 /\ cur_work'.cur_job = Some(Head(job_chan[last'.host]))
                 /\ cur_work'.cur_job_source = Some(last'.host) ]_vars

\* the current job is the second provider's and the current pool info the
\* second pool's, and a WorkInfo merged from them is on its way to the server
C38_Witness ==
    /\ cur_work.cur_job_source = Some(2)
    /\ cur_work.cur_pool_source = Some(1)
    /\ work_chan # <<>>
    /\ work_chan[1].job_source = Some(2)
    /\ work_chan[1].payout_source = Some(1)

-----------------------------------------------------------------------------
(* Claims about the sample pool's connections, under SpecSamplePool *)

\* what the send sink of connection c accepted and did not lose
Accepted(c) == c.written \o c.queue

CountOf(seq, type) == Cardinality({ i \in 1..Len(seq) : seq[i].type = type })

\* what holds of every connection of the sample pool in every state
ConnectionRules(c) ==
    /\ CountOf(Accepted(c), "PayoutInfo") <= 1
    /\ CountOf(Accepted(c), "ShareDifficulty") <= 1
    /\ \A i \in 1..Len(Accepted(c)) :
         Accepted(c)[i].type = "ShareDifficulty"
             => i > 1 /\ Accepted(c)[i - 1].type = "PayoutInfo"
    /\ CountOf(Accepted(c), "PayoutInfo") > 0
           => c.received_protocol_support /\ c.client_authed
    /\ CountOf(Accepted(c), "ProtocolVersion") > 0 => c.received_protocol_support

\* what holds of connection n over every step
ConnectionStep(n) ==
    LET c == sample.conns[n]
        d == sample'.conns[n]
        handled == last'.op = "SampleHandleMessage" /\ last'.conn = n
    IN  /\ CountOf(Accepted(d), "ProtocolVersion") > CountOf(Accepted(c), "ProtocolVersion")
            => /\ handled
               /\ last'.msg.type = "ProtocolSupport"
               /\ last'.msg.min_version <= 1
               /\ last'.msg.max_version >= 1
        /\ CountOf(Accepted(d), "PayoutInfo") > CountOf(Accepted(c), "PayoutInfo")
            => /\ handled
               /\ last'.msg.type = "PayoutInfoRequest"
               /\ c.received_protocol_support
               /\ ~c.client_authed
        /\ handled /\ last'.msg.type = "PayoutInfoRequest"
                   /\ (~c.received_protocol_support \/ c.client_authed)
            => last'.res = "Err" /\ ~d.open /\ Accepted(d) = Accepted(c)
        /\ handled /\ last'.msg.type = "Share"
            => /\ last'.res = "Ok" <=> c.received_protocol_support /\ c.client_authed
               /\ last'.log = "share checked" <=> last'.res = "Ok"
               /\ last'.res = "Err" => ~d.open

\* C40: on each connection of the sample pool, ProtocolVersion is queued only
\* by the handling of a ProtocolSupport whose version range includes 1;
\* PayoutInfo and the ShareDifficulty after it are queued at most once, by a
\* PayoutInfoRequest that came after ProtocolSupport, and a PayoutInfoRequest
\* that comes before ProtocolSupport or after an accepted one ends the
\* connection and queues nothing; a Share is checked exactly when both
\* ProtocolSupport and a PayoutInfoRequest were accepted, and ends the
\* connection otherwise; and no two connections have the same client id.
C40_SamplePoolConnectionRules ==
    /\ [](/\ \A n \in 1..Len(sample.conns) : ConnectionRules(sample.conns[n])
          /\ \A n, m \in 1..Len(sample.conns) :
               n # m => sample.conns[n].client_id # sample.conns[m].client_id)
    /\ [][\A n \in 1..Len(sample.conns) : ConnectionStep(n)]_vars

\* the second connection had its Share checked after it was sent ProtocolVersion,
\* PayoutInfo and ShareDifficulty, and the first was ended by a PayoutInfoRequest
\* that came too early
C40_Witness ==
    /\ Len(sample.conns) = 2
    /\ ~sample.conns[1].open
    /\ ~sample.conns[1].received_protocol_support
    /\ Accepted(sample.conns[1]) = <<>>
    /\ last.op = "SampleHandleMessage"
    /\ last.conn = 2
    /\ last.msg.type = "Share"
    /\ last.res = "Ok"
    /\ Len(sample.conns[2].written) = 3
    /\ sample.conns[2].written[1].type = "ProtocolVersion"
    /\ sample.conns[2].written[2].type = "PayoutInfo"
    /\ sample.conns[2].written[2].payout_info.coinbase_postfix
           = ClientCoinbasePostfix(1, sample.server_id)
    /\ sample.conns[2].written[3].type = "ShareDifficulty"

====
